---- MODULE Spec2Model ----
(***************************************************************************)
(* Telemetry normalization and anomaly detection of the UAV Log Viewer.    *)
(*                                                                         *)
(* Numeric telemetry values are held in TENTHS of their unit (99 is 9.9 V, *)
(* -1000 is -100.0 m), so that the table bounds and the values next to     *)
(* them are integers.  Means, standard deviations and regression slopes    *)
(* are kept as exact fractions and every comparison of the code is made    *)
(* by cross-multiplication; no rounding is modelled.                       *)
(***************************************************************************)
EXTENDS Integers, Sequences, FiniteSets, TLC

VARIABLES
    \* ---- anomaly detector: one series through summary and detector rules
    parameter,      \* name of the series in time_series
    data_points,    \* the series: sequence of [timestamp, value]
    stats,          \* its statistical summary
    anomalies,      \* the flat anomaly list built so far
    error,          \* "none", or the name of the exception that was raised
    pc,             \* position in the detection pass
    \* ---- time-range query on one series
    query_points,   \* the (pre-sorted) series that is queried
    time_range,     \* <<start_time, end_time>>
    search_side,    \* which insertion point _binary_search_timestamp returns
    query_result,   \* the slice that is returned
    aggregation,    \* the aggregation mode of the query
    aggregated,     \* the slice after aggregation
    query_pc,       \* position in the query
    \* ---- ingest: log messages -> extractors -> normalisation -> time series
    messages,       \* the parsed log: message type -> parallel field arrays
    timeAttitude,   \* result of extractAttitude: timestamp -> [roll, pitch, yaw]
    battery_series, \* result of extractBatterySeries
    gpsHealth,      \* result of extractGpsHealth
    flight_data,    \* the flight data the backend holds after normalisation
    time_series,    \* the detector's time series, from _extract_time_series_data
    ingest_pc,      \* position in the ingest
    \* ---- flight-phase segmentation of the altitude series
    alt_data,       \* the gps_alt series: sequence of [timestamp, value]
    flight_phases,  \* the phases that were identified
    phase_pc,       \* position in the segmentation
    \* ---- parameter query: resolution of a parameter name
    known_series,   \* the series of the flight data: name -> series
    requested,      \* the parameter name that is asked for
    resolved,       \* the source that was used and the points it gave
    resolve_pc,     \* position in the resolution
    \* ---- log viewer: the extractors that run on the parsed log
    flightModes,    \* result of extractFlightModes
    params,         \* result of extractParams: the [time, name, value] triples
    params_dict,    \* the backend's {name: value} mapping of the triples
    trajectories,   \* result of extractTrajectory
    extract_pc,     \* position in the extraction
    \* ---- completeness report of a flight record
    flight_record,  \* the kinds of data the flight record holds
    completeness,   \* the report
    report_pc,      \* position in the report
    \* ---- chat window component
    chat_messages,  \* this.messages: the chat history
    newMessage,     \* this.newMessage: the input box
    isLoading,      \* this.isLoading
    messageId,      \* this.messageId
    flightDataSent, \* this.flightDataSent
    processDone,    \* state.processDone of the store
    connectionStatus, \* this.connectionStatus
    mounted_pc,     \* position of the mounted() hook
    uploads,        \* the POST /flight-data requests, in the order started
    chat_request    \* the POST /chat requests in flight

detectVars == <<parameter, data_points, stats, anomalies, error, pc>>
queryVars ==
    <<query_points, time_range, search_side, query_result, aggregation,
      aggregated, query_pc>>
ingestVars ==
    <<messages, timeAttitude, battery_series, gpsHealth, flight_data, time_series,
      ingest_pc>>

phaseVars == <<alt_data, flight_phases, phase_pc>>
resolveVars == <<known_series, requested, resolved, resolve_pc>>
extractVars == <<flightModes, params, params_dict, trajectories, extract_pc>>
reportVars == <<flight_record, completeness, report_pc>>
chatVars ==
    <<chat_messages, newMessage, isLoading, messageId, flightDataSent,
      processDone, connectionStatus, mounted_pc, uploads, chat_request>>

vars ==
    <<detectVars, queryVars, ingestVars, phaseVars, resolveVars, extractVars,
      reportVars, chatVars>>

\* the gpsHealth object before any message is read
NoGpsHealth ==
    [status_changes |-> <<>>, satellite_counts |-> <<>>,
     signal_quality |-> <<>>, accuracy_metrics |-> <<>>]

-----------------------------------------------------------------------------
(* Bounds of the checked inputs.                                           *)

\* longest series of the general input family
MaxLen == 4
\* longest series of the family  0, 0, ..., 0, 100
MaxJumpLen == 10

-----------------------------------------------------------------------------
(* Arithmetic helpers.                                                     *)

Abs(x) == IF x < 0 THEN -x ELSE x

RECURSIVE SumTo(_, _, _)
\* f(1) + ... + f(n) for a sequence-like f
SumTo(f, n, acc) == IF n = 0 THEN acc ELSE SumTo(f, n - 1, acc + f[n])

Sum(s) == SumTo(s, Len(s), 0)

SeqMin(s) == CHOOSE m \in {s[i] : i \in 1..Len(s)} : \A i \in 1..Len(s) : m <= s[i]
SeqMax(s) == CHOOSE m \in {s[i] : i \in 1..Len(s)} : \A i \in 1..Len(s) : m >= s[i]

Timestamps(points) == [i \in 1..Len(points) |-> points[i].timestamp]
Values(points) == [i \in 1..Len(points) |-> points[i].value]

-----------------------------------------------------------------------------
(* Statistical summary.                                                    *)

\* n * sum(x*y) - sum(x) * sum(y): numerator of the least-squares slope
SlopeNum(x, y) ==
    Len(x) * Sum([i \in 1..Len(x) |-> x[i] * y[i]]) - Sum(x) * Sum(y)

\* n * sum(x*x) - sum(x)^2: its denominator, 0 iff all x are equal
SlopeDen(x) ==
    Len(x) * Sum([i \in 1..Len(x) |-> x[i] * x[i]]) - Sum(x) * Sum(x)

\* the three-way classification of calculate_trend for a slope num/den,
\* den > 0, of tenths per timestamp unit: slope > 0.01 iff num/(10 den) > 1/100
ClassifySlope(num, den) ==
    IF 10 * num > den THEN "increasing"
    ELSE IF 10 * num < -den THEN "decreasing"
    ELSE "stable"

\* np.polyfit(x, y, 1)[0] followed by the classification: the set of
\* outcomes.  polyfit solves the column-scaled least-squares problem with
\* lstsq.  With distinct timestamps the slope is SlopeNum/SlopeDen.  With
\* all timestamps equal to c the system has rank 1 and lstsq returns the
\* minimum-norm solution of the scaled system, slope = mean(y) / (2c), with
\* a RankWarning; with c = 0 the scaling divides by zero, the matrix holds
\* NaN, and lstsq either raises LinAlgError or returns NaN (every
\* comparison with NaN is false, giving "stable").
calculate_trend(timestamps, values) ==
    LET n == Len(timestamps)
        c == timestamps[1]
    IN  IF SlopeDen(timestamps) # 0
        THEN {ClassifySlope(SlopeNum(timestamps, values), SlopeDen(timestamps))}
        ELSE IF c # 0
        THEN {ClassifySlope(IF c > 0 THEN Sum(values) ELSE -Sum(values),
                            2 * Abs(c) * n)}
        ELSE {"LinAlgError", "stable"}

NoStats ==
    [computed |-> FALSE, count |-> 0, min |-> 0, max |-> 0, sum |-> 0,
     var_num |-> 0, var_den |-> 1, trend |-> "none"]

\* the exception the summary raises for the series, "none" when it does not:
\* min([]) raises ValueError, statistics.stdev of one value StatisticsError
SummaryError(points) ==
    IF Len(points) = 0 THEN "ValueError"
    ELSE IF Len(points) = 1 THEN "StatisticsError"
    ELSE "none"

\* the summary of a series of >= 2 points, trend left to calculate_trend.
\* mean = sum / count; std_dev^2 = var_num / var_den (statistics.stdev is the
\* sample standard deviation: sum of squared deviations over count - 1)
statistical_summary(points, trend) ==
    LET values == Values(points)
        n == Len(values)
    IN  [computed |-> TRUE,
         count |-> n,
         min |-> SeqMin(values),
         max |-> SeqMax(values),
         sum |-> Sum(values),
         var_num |-> n * Sum([i \in 1..n |-> values[i] * values[i]])
                        - Sum(values) * Sum(values),
         var_den |-> n * (n - 1),
         trend |-> trend]

-----------------------------------------------------------------------------
(* Detector rules.                                                         *)

\* change > 3 * std_dev, both sides squared (change >= 0, std_dev >= 0):
\* change^2 > 9 * var_num / var_den
ExceedsSigmaRelaxed(change, st) ==
    change * change * st.var_den >= 9 * st.var_num

ExceedsTwoSigma(change, st) ==
    change * change * st.var_den > 4 * st.var_num

ExceedsSigma(change, st) ==
    change * change * st.var_den > 9 * st.var_num

\* severity of a sudden-change anomaly
SuddenChangeSeverity == "high"

RECURSIVE SuddenLoopNewestFirst(_, _, _, _)
SuddenLoopNewestFirst(points, st, i, out) ==
    IF i > Len(points) THEN out
    ELSE LET change == Abs(points[i].value - points[i - 1].value)
         IN  SuddenLoopNewestFirst(points, st, i + 1,
                 IF ExceedsSigma(change, st)
                 THEN <<[type |-> "sudden_change",
                         severity |-> SuddenChangeSeverity,
                         index |-> i,
                         timestamp |-> points[i].timestamp,
                         value |-> points[i].value]>> \o out
                 ELSE out)

RECURSIVE SuddenLoop(_, _, _, _)
\* for i in range(1, len(data_points)), here with indices from 1: i = 2..n
SuddenLoop(points, st, i, out) ==
    IF i > Len(points) THEN out
    ELSE LET change == Abs(points[i].value - points[i - 1].value)
         IN  SuddenLoop(points, st, i + 1,
                 IF ExceedsSigma(change, st)
                 THEN Append(out, [type |-> "sudden_change",
                                   severity |-> SuddenChangeSeverity,
                                   index |-> i,
                                   timestamp |-> points[i].timestamp,
                                   value |-> points[i].value])
                 ELSE out)

detect_sudden_changes(points, st) == SuddenLoop(points, st, 2, <<>>)

\* the per-parameter bounds, in tenths: 10.0-15.0 V, -100-1000 m, 5.0 m,
\* -20-60 degrees C
thresholds ==
    [battery_voltage |-> [min |-> 100, max |-> 150],
     gps_alt         |-> [min |-> -1000, max |-> 10000],
     gps_accuracy    |-> [max |-> 50],
     temperature     |-> [min |-> -200, max |-> 600]]

BelowMinInclusive(value, threshold) ==
    "min" \in DOMAIN threshold /\ value <= threshold.min

\* the value violates the table's lower bound
BelowMin(value, threshold) ==
    "min" \in DOMAIN threshold /\ value < threshold.min

\* the value violates the table's upper bound
AboveMax(value, threshold) ==
    "max" \in DOMAIN threshold /\ value > threshold.max

ThresholdSeverityHalfBound(value, bound) ==
    IF 2 * Abs(value - bound) > Abs(bound) THEN "critical" ELSE "medium"

\* critical when the value lies beyond the violated bound by more than the
\* bound's own magnitude (2 x the bound, measured from zero), else medium
ThresholdSeverity(value, bound) ==
    IF Abs(value - bound) > Abs(bound) THEN "critical" ELSE "medium"

ThresholdAnomaly(points, i, bound) ==
    [type |-> "threshold_violation",
     severity |-> ThresholdSeverity(points[i].value, bound),
     index |-> i,
     timestamp |-> points[i].timestamp,
     value |-> points[i].value]

RECURSIVE ThresholdLoop(_, _, _, _)
ThresholdLoop(points, threshold, i, out) ==
    IF i > Len(points) THEN out
    ELSE ThresholdLoop(points, threshold, i + 1,
             IF BelowMin(points[i].value, threshold)
             THEN Append(out, ThresholdAnomaly(points, i, threshold.min))
             ELSE IF AboveMax(points[i].value, threshold)
             THEN Append(out, ThresholdAnomaly(points, i, threshold.max))
             ELSE out)

\* a parameter without a table entry is not checked
detect_threshold_violations(param, points) ==
    IF param \in DOMAIN thresholds
    THEN ThresholdLoop(points, thresholds[param], 1, <<>>)
    ELSE <<>>

\* abs(stats['mean']) == 0: the division raises ZeroDivisionError
VarianceRaises(st) == st.sum = 0

\* std_dev / abs(mean) > 0.5 for mean # 0, squared:
\* 4 * var_num / (count * (count - 1)) > sum^2 / count^2, both sides
\* multiplied by count^2 * (count - 1)
HighVariance(st) ==
    4 * st.var_num * st.count > st.sum * st.sum * (st.count - 1)

detect_variance_anomalies(points, st) ==
    IF HighVariance(st)
    THEN <<[type |-> "high_variance", severity |-> "medium", index |-> 0,
            timestamp |-> 0, value |-> 0]>>
    ELSE <<>>

-----------------------------------------------------------------------------
(* The inputs of the detection pass.                                       *)

\* values, in tenths, a series of each parameter is drawn from
ParamValues ==
    [battery_voltage |-> {-50, 99, 100, 150, 151, 300, 301},
     gps_alt         |-> {-2001, -2000, -1001, -1000, 0},
     gps_accuracy    |-> {0, 50, 51, 101},
     temperature     |-> {-401, -201, -200, 601},
     velocity        |-> {-10, 0, 10, 20, 30}]

Parameters == DOMAIN ParamValues

\* <<first timestamp, step>>: regular sampling, and all samples at one time
TimeProfiles == {<<0, 1>>, <<0, 10>>, <<5, 0>>}

MakePoints(values, profile) ==
    [i \in 1..Len(values) |->
        [timestamp |-> profile[1] + (i - 1) * profile[2], value |-> values[i]]]

\* n - 1 samples of 0 followed by one sample of 100.0
JumpSeries(n) == [i \in 1..n |-> IF i = n THEN 1000 ELSE 0]

\* samples of 0 around one sample of 100.0 in the middle
SpikeSeries(n) == [i \in 1..n |-> IF i = (n + 1) \div 2 THEN 1000 ELSE 0]

SeriesOf(param) ==
    UNION {[1..n -> ParamValues[param]] : n \in 0..MaxLen}
    \cup (IF param = "velocity"
          THEN {JumpSeries(n) : n \in 2..MaxJumpLen}
                  \cup {SpikeSeries(n) : n \in 3..MaxJumpLen}
          ELSE {})

-----------------------------------------------------------------------------
(* The detection pass: extract -> summarise -> detector rules in           *)
(* declaration order.                                                      *)

DetectIdle ==
    /\ parameter = "none"
    /\ data_points = <<>>
    /\ stats = NoStats
    /\ anomalies = <<>>
    /\ error = "none"
    /\ pc = "idle"

QueryIdle ==
    /\ query_points = <<>>
    /\ time_range = <<0, 0>>
    /\ search_side = "left"
    /\ query_result = <<>>
    /\ aggregation = <<"raw">>
    /\ aggregated = <<>>
    /\ query_pc = "idle"

IngestIdle ==
    /\ messages = <<>>
    /\ timeAttitude = <<>>
    /\ battery_series = <<>>
    /\ gpsHealth = NoGpsHealth
    /\ flight_data = <<>>
    /\ time_series = <<>>
    /\ ingest_pc = "idle"

PhaseIdle ==
    /\ alt_data = <<>>
    /\ flight_phases = <<>>
    /\ phase_pc = "idle"

ResolveIdle ==
    /\ known_series = <<>>
    /\ requested = <<>>
    /\ resolved = <<>>
    /\ resolve_pc = "idle"

ExtractIdle ==
    /\ flightModes = <<>>
    /\ params = <<>>
    /\ params_dict = <<>>
    /\ trajectories = <<>>
    /\ extract_pc = "idle"

ReportIdle ==
    /\ flight_record = {}
    /\ completeness = <<>>
    /\ report_pc = "idle"

ChatIdle ==
    /\ chat_messages = <<>>
    /\ newMessage = <<>>
    /\ isLoading = FALSE
    /\ messageId = 0
    /\ flightDataSent = FALSE
    /\ processDone = FALSE
    /\ connectionStatus = "connecting"
    /\ mounted_pc = "idle"
    /\ uploads = <<>>
    /\ chat_request = <<>>

Init ==
    /\ ExtractIdle
    /\ ReportIdle
    /\ ChatIdle
    /\ QueryIdle
    /\ IngestIdle
    /\ PhaseIdle
    /\ ResolveIdle
    /\ parameter \in Parameters
    /\ \E values \in SeriesOf(parameter), profile \in TimeProfiles :
          data_points = MakePoints(values, profile)
    /\ stats = NoStats
    /\ anomalies = <<>>
    /\ error = "none"
    /\ pc = "extracted"

\* _calculate_statistical_summary on a series it cannot summarise
SummarizeRaises ==
    /\ pc = "extracted"
    /\ SummaryError(data_points) # "none"
    /\ error' = SummaryError(data_points)
    /\ pc' = "raised"
    /\ UNCHANGED <<parameter, data_points, stats, anomalies>>
    /\ UNCHANGED <<queryVars, ingestVars, phaseVars, resolveVars, extractVars, reportVars, chatVars>>

\* _calculate_statistical_summary, calculate_trend included
Summarize ==
    /\ pc = "extracted"
    /\ SummaryError(data_points) = "none"
    /\ \E outcome \in calculate_trend(Timestamps(data_points), Values(data_points)) :
          IF outcome = "LinAlgError"
          THEN /\ error' = outcome
               /\ pc' = "raised"
               /\ UNCHANGED stats
          ELSE /\ stats' = statistical_summary(data_points, outcome)
               /\ pc' = "summarized"
               /\ UNCHANGED error
    /\ UNCHANGED <<parameter, data_points, anomalies>>
    /\ UNCHANGED <<queryVars, ingestVars, phaseVars, resolveVars, extractVars, reportVars, chatVars>>

DetectSuddenChanges ==
    /\ pc = "summarized"
    /\ anomalies' = anomalies \o detect_sudden_changes(data_points, stats)
    /\ pc' = "sudden_done"
    /\ UNCHANGED <<parameter, data_points, stats, error>>
    /\ UNCHANGED <<queryVars, ingestVars, phaseVars, resolveVars, extractVars, reportVars, chatVars>>

DetectThresholdViolations ==
    /\ pc = "sudden_done"
    /\ anomalies' = anomalies \o detect_threshold_violations(parameter, data_points)
    /\ pc' = "threshold_done"
    /\ UNCHANGED <<parameter, data_points, stats, error>>
    /\ UNCHANGED <<queryVars, ingestVars, phaseVars, resolveVars, extractVars, reportVars, chatVars>>

DetectVarianceAnomalies ==
    /\ pc = "threshold_done"
    /\ IF VarianceRaises(stats)
       THEN /\ error' = "ZeroDivisionError"
            /\ pc' = "raised"
            /\ UNCHANGED anomalies
       ELSE /\ anomalies' = anomalies \o detect_variance_anomalies(data_points, stats)
            /\ pc' = "done"
            /\ UNCHANGED error
    /\ UNCHANGED <<parameter, data_points, stats>>
    /\ UNCHANGED <<queryVars, ingestVars, phaseVars, resolveVars, extractVars, reportVars, chatVars>>

Next ==
    \/ SummarizeRaises
    \/ Summarize
    \/ DetectSuddenChanges
    \/ DetectThresholdViolations
    \/ DetectVarianceAnomalies

Spec == Init /\ [][Next]_vars

-----------------------------------------------------------------------------
(* Time-range query.                                                       *)

\* most samples of a queried series
MaxPoints == 5
\* largest timestamp of a queried sample
MaxTime == 3

RECURSIVE Bisect(_, _, _, _, _)
\* binary search for the insertion point of t among the timestamps of the
\* sorted points, as a 0-based index in lo..hi: before the samples with
\* timestamp t (side "left") or after them (side "right")
Bisect(points, t, side, lo, hi) ==
    IF lo >= hi THEN lo
    ELSE LET mid == (lo + hi) \div 2
             goRight == IF side = "left"
                        THEN points[mid + 1].timestamp < t
                        ELSE points[mid + 1].timestamp <= t
         IN  IF goRight
             THEN Bisect(points, t, side, mid + 1, hi)
             ELSE Bisect(points, t, side, lo, mid)

\* _binary_search_timestamp(data_points, t): one helper, used for both ends
binary_search_timestamp(points, t, side) == Bisect(points, t, side, 0, Len(points))

\* data_points[start_idx:end_idx] of Python, indices from 0, end exclusive
Slice(points, start_idx, end_idx) == SubSeq(points, start_idx + 1, end_idx)

optimize_time_range_query(points, range, side) ==
    LET start_idx == binary_search_timestamp(points, range[1], side)
        end_idx == binary_search_timestamp(points, range[2], side)
    IN  Slice(points, start_idx, end_idx)

\* the sequence is ordered by timestamp
IsSorted(points) ==
    \A i \in 1..(Len(points) - 1) : points[i].timestamp <= points[i + 1].timestamp

\* timestamp-sorted series of at most MaxPoints samples; the value of a
\* sample is its position, so that samples of one timestamp stay apart
SortedSeries ==
    {points \in {[i \in 1..Len(t) |-> [timestamp |-> t[i], value |-> i]]
                    : t \in UNION {[1..n -> 0..MaxTime] : n \in 0..MaxPoints}} :
        IsSorted(points)}

\* largest decimation factor of a query
MaxFactor == 3

\* the aggregation modes of a query: raw, or decimate(n)
Aggregations == {<<"raw">>} \cup {<<"decimate", n>> : n \in 1..MaxFactor}

\* the positions 1, 1 + n, 1 + 2n, ... of a slice of the given length
EveryNth(length, n) == {q \in 1..length : (q - 1) % n = 0}

RECURSIVE Pick(_, _, _)
\* the samples of the slice at the given positions, from position q on
Pick(slice, positions, q) ==
    IF q > Len(slice) THEN <<>>
    ELSE (IF q \in positions THEN <<slice[q]>> ELSE <<>>)
            \o Pick(slice, positions, q + 1)

decimateLastTwice(slice, n) ==
    IF Len(slice) < 2 \/ n <= 1 THEN slice
    ELSE Append(Pick(slice, EveryNth(Len(slice), n), 1), slice[Len(slice)])

\* every n-th sample of the slice, and its last sample when that is not
\* one of them
decimate(slice, n) ==
    IF Len(slice) < 2 \/ n <= 1 THEN slice
    ELSE Pick(slice, EveryNth(Len(slice), n) \cup {Len(slice)}, 1)

apply_aggregation(slice, mode) ==
    IF mode[1] = "decimate" THEN decimate(slice, mode[2]) ELSE slice

QueryInit ==
    /\ ExtractIdle
    /\ ReportIdle
    /\ ChatIdle
    /\ DetectIdle
    /\ PhaseIdle
    /\ ResolveIdle
    /\ IngestIdle
    /\ query_points \in SortedSeries
    /\ time_range \in (0..(MaxTime + 1)) \X (0..(MaxTime + 1))
    /\ search_side \in {"left", "right"}
    /\ query_result = <<>>
    /\ aggregation \in Aggregations
    /\ aggregated = <<>>
    /\ query_pc = "ready"

TimeRangeQuery ==
    /\ query_pc = "ready"
    /\ query_result' = optimize_time_range_query(query_points, time_range, search_side)
    /\ query_pc' = "done"
    /\ UNCHANGED <<query_points, time_range, search_side, aggregation, aggregated>>
    /\ UNCHANGED <<detectVars, ingestVars, phaseVars, resolveVars, extractVars, reportVars, chatVars>>

\* _apply_aggregation on the slice of the time range
ApplyAggregation ==
    /\ query_pc = "done"
    /\ aggregated' = apply_aggregation(query_result, aggregation)
    /\ query_pc' = "aggregated"
    /\ UNCHANGED <<query_points, time_range, search_side, query_result, aggregation>>
    /\ UNCHANGED <<detectVars, ingestVars, phaseVars, resolveVars, extractVars, reportVars, chatVars>>

QueryNext ==
    \/ TimeRangeQuery
    \/ ApplyAggregation

SpecQuery == QueryInit /\ [][QueryNext]_vars

-----------------------------------------------------------------------------
(* Ingest: extractors of the log viewer, normalisation, time series.       *)

\* most messages of SYS_STATUS and of BATTERY_STATUS in a log
MaxMsgs == 2
\* most messages of ATTITUDE in a log
MaxAttitude == 3
\* largest time_boot_ms of a message
MaxLogTime == 2
\* most messages of SCALED_PRESSURE and of NAMED_VALUE_FLOAT in a log
MaxAux == 1

\* An optional value is a sequence: <<>> is undefined, <<x>> is the value x.
undefined == <<>>

Some(x) == <<x>>

\* typeof v === 'number'
IsNumber(v) == v # undefined

\* for (const i in array): the indices in ascending order
Indices(array) == 1..Len(array)

\* {timestamp, voltage, current, remaining, temperature}; a property that
\* was not set reads as undefined
BatterySample(ts, voltage, current, remaining, temperature) ==
    [timestamp |-> ts, voltage |-> voltage, current |-> current,
     remaining |-> remaining, temperature |-> temperature]

\* v / 1000.0: millivolts to volts, here to tenths of a volt
MilliToTenths(v) == v \div 100

\* c / 100.0: centi-amperes to amperes, centi-degrees to degrees, here to
\* tenths of them
CentiToTenths(c) == c \div 10

RECURSIVE SumNumbers(_, _)
\* voltArray.reduce((a, v) => a + (typeof v === 'number' ? v : 0), 0)
SumNumbers(voltArray, n) ==
    IF n = 0 THEN 0
    ELSE SumNumbers(voltArray, n - 1)
            + (IF IsNumber(voltArray[n]) THEN voltArray[n][1] ELSE 0)

\* the samples pushed for SYS_STATUS, in message order
SysStatusSamples(msgs) ==
    IF "SYS_STATUS" \notin DOMAIN msgs THEN <<>>
    ELSE LET m == msgs.SYS_STATUS
         IN  [i \in Indices(m.time_boot_ms) |->
                BatterySample(m.time_boot_ms[i],
                    IF IsNumber(m.voltage_battery[i])
                    THEN Some(MilliToTenths(m.voltage_battery[i][1]))
                    ELSE undefined,
                    IF IsNumber(m.current_battery[i])
                    THEN Some(CentiToTenths(m.current_battery[i][1]))
                    ELSE undefined,
                    m.battery_remaining[i],
                    undefined)]

\* the samples pushed for BATTERY_STATUS, in message order
BatteryStatusSamples(msgs) ==
    IF "BATTERY_STATUS" \notin DOMAIN msgs THEN <<>>
    ELSE LET b == msgs.BATTERY_STATUS
         IN  [i \in Indices(b.time_boot_ms) |->
                LET totalV == SumNumbers(b.voltages[i], Len(b.voltages[i]))
                IN  BatterySample(b.time_boot_ms[i],
                        IF totalV > 0 THEN Some(MilliToTenths(totalV))
                        ELSE undefined,
                        IF IsNumber(b.current_battery[i])
                        THEN Some(CentiToTenths(b.current_battery[i][1]))
                        ELSE undefined,
                        undefined,
                        IF IsNumber(b.temperature[i])
                        THEN Some(CentiToTenths(b.temperature[i][1]))
                        ELSE undefined)]

\* the samples pushed for SCALED_PRESSURE: those with a numeric temperature
ScaledPressureSamples(msgs) ==
    IF "SCALED_PRESSURE" \notin DOMAIN msgs THEN <<>>
    ELSE LET sp == msgs.SCALED_PRESSURE
             kept == SelectSeq([i \in Indices(sp.time_boot_ms) |-> i],
                               LAMBDA i : IsNumber(sp.temperature[i]))
         IN  [k \in 1..Len(kept) |->
                BatterySample(sp.time_boot_ms[kept[k]], undefined, undefined,
                              undefined,
                              Some(CentiToTenths(sp.temperature[kept[k]][1])))]

\* name.includes('BATT') && name.includes('TEMP') on the upper-cased name,
\* for the names the logs below hold
LikelyBatteryTemp(name) == name \in {"BATT_TEMP", "batt_temp"}

\* the samples pushed for NAMED_VALUE_FLOAT: the likely battery temperatures
NamedValueSamples(msgs) ==
    IF "NAMED_VALUE_FLOAT" \notin DOMAIN msgs THEN <<>>
    ELSE LET nvf == msgs.NAMED_VALUE_FLOAT
             kept == SelectSeq([i \in Indices(nvf.time_boot_ms) |-> i],
                               LAMBDA i : LikelyBatteryTemp(nvf.name[i]))
         IN  [k \in 1..Len(kept) |->
                BatterySample(nvf.time_boot_ms[kept[k]], undefined, undefined,
                              undefined, nvf.value[kept[k]])]

\* one source after the other is appended to the same list
extractBatterySeries(msgs) ==
    SysStatusSamples(msgs) \o BatteryStatusSamples(msgs)
        \o ScaledPressureSamples(msgs) \o NamedValueSamples(msgs)

\* parseInt of a non-negative integer timestamp
parseInt(x) == x

RECURSIVE AttitudeLoop(_, _, _)
\* attitudes[parseInt(time_boot_ms[i])] = [roll[i], pitch[i], yaw[i]] for the
\* messages from i on: a later message with the same key replaces the entry
AttitudeLoop(att, i, attitudes) ==
    IF i > Len(att.time_boot_ms) THEN attitudes
    ELSE LET key == parseInt(att.time_boot_ms[i])
             entry == <<att.roll[i], att.pitch[i], att.yaw[i]>>
         IN  AttitudeLoop(att, i + 1,
                 [k \in DOMAIN attitudes \cup {key} |->
                     IF k = key THEN entry ELSE attitudes[k]])

extractAttitude(msgs) ==
    IF "ATTITUDE" \in DOMAIN msgs
    THEN AttitudeLoop(msgs.ATTITUDE, 1, <<>>)
    ELSE <<>>

RECURSIVE KeysAscending(_)
\* the keys of an object with integer keys, in the order JSON.stringify and
\* the backend's dict see them: ascending
KeysAscending(keys) ==
    IF keys = {} THEN <<>>
    ELSE LET least == CHOOSE k \in keys : \A j \in keys : k <= j
         IN  <<least>> \o KeysAscending(keys \ {least})

\* attitude_series from the timeAttitude map: one record per key
AttitudeSeriesOf(map) ==
    LET keys == KeysAscending(DOMAIN map)
    IN  [i \in 1..Len(keys) |->
            [timestamp |-> keys[i], roll |-> map[keys[i]][1],
             pitch |-> map[keys[i]][2], yaw |-> map[keys[i]][3]]]

\* _normalize_flight_data on the uploaded payload: attitude_series is derived
\* from timeAttitude, battery_series is passed through
normalize_flight_data(payload) ==
    [attitude_series |-> AttitudeSeriesOf(payload.timeAttitude),
     battery_series |-> payload.battery_series]

RECURSIVE InsertSorted(_, _)
\* the record put behind every record whose timestamp is not larger
InsertSorted(sorted, rec) ==
    IF sorted = <<>> THEN <<rec>>
    ELSE IF sorted[Len(sorted)].timestamp <= rec.timestamp
    THEN Append(sorted, rec)
    ELSE Append(InsertSorted(SubSeq(sorted, 1, Len(sorted) - 1), rec),
                sorted[Len(sorted)])

RECURSIVE SortByTimestamp(_, _)
\* a stable sort by timestamp of the first n records
SortByTimestamp(points, n) ==
    IF n = 0 THEN <<>>
    ELSE InsertSorted(SortByTimestamp(points, n - 1), points[n])

\* _extract_time_series_data: the temporal data points, sorted by timestamp
extract_time_series_data(data) ==
    [battery |-> SortByTimestamp(data.battery_series, Len(data.battery_series)),
     attitude |-> SortByTimestamp(data.attitude_series, Len(data.attitude_series))]

\* time_boot_ms arrays of at most n messages, in log order
TimeArrays(n) ==
    {t \in UNION {[1..k -> 1..MaxLogTime] : k \in 0..n} :
        \A i \in 1..(Len(t) - 1) : t[i] <= t[i + 1]}

\* the logs' SYS_STATUS messages: 12.0 V, 1.5 A, 80 % remaining
SysStatusLogs ==
    {[time_boot_ms |-> t,
      voltage_battery |-> [i \in 1..Len(t) |-> Some(12000)],
      current_battery |-> [i \in 1..Len(t) |-> Some(150)],
      battery_remaining |-> [i \in 1..Len(t) |-> Some(80)]]
        : t \in TimeArrays(MaxMsgs)}

\* the logs' BATTERY_STATUS messages: three cells, 11.1 V in all, 30 degrees
BatteryStatusLogs ==
    {[time_boot_ms |-> t,
      voltages |-> [i \in 1..Len(t) |-> <<Some(3700), Some(3700), Some(3700)>>],
      current_battery |-> [i \in 1..Len(t) |-> Some(150)],
      temperature |-> [i \in 1..Len(t) |-> Some(3000)]]
        : t \in TimeArrays(MaxMsgs)}

\* the logs' SCALED_PRESSURE messages: 25.00 degrees C, or no temperature
ScaledPressureLogs ==
    UNION {{[time_boot_ms |-> t, temperature |-> temp]
               : temp \in [1..Len(t) -> {Some(2500), undefined}]}
           : t \in TimeArrays(MaxAux)}

\* the logs' NAMED_VALUE_FLOAT messages: a battery temperature of 30.0
\* degrees C, or another named value
NamedValueLogs ==
    UNION {{[time_boot_ms |-> t, name |-> name,
             value |-> [i \in 1..Len(t) |-> Some(300)]]
               : name \in [1..Len(t) -> {"BATT_TEMP", "ALT"}]}
           : t \in TimeArrays(MaxAux)}

\* the message type with its arrays, or left out of the log
Optional(logs) == {undefined} \cup {Some(log) : log \in logs}

\* the logs' ATTITUDE messages; the roll tells the samples apart
AttitudeLogs ==
    UNION {{[time_boot_ms |-> t, roll |-> roll,
             pitch |-> [i \in 1..Len(t) |-> 0], yaw |-> [i \in 1..Len(t) |-> 0]]
               : roll \in [1..Len(t) -> 1..2]}
           : t \in TimeArrays(MaxAttitude)}

RECURSIVE MessagesOf(_, _)
\* the messages object holding the given <<type, optional arrays>> pairs; a
\* pair without arrays leaves the type out of the object
MessagesOf(pairs, n) ==
    IF n = 0 THEN <<>>
    ELSE LET rest == MessagesOf(pairs, n - 1)
         IN  IF pairs[n][2] = undefined THEN rest
             ELSE [k \in DOMAIN rest \cup {pairs[n][1]} |->
                      IF k = pairs[n][1] THEN pairs[n][2][1] ELSE rest[k]]

IngestStart ==
    /\ timeAttitude = <<>>
    /\ battery_series = <<>>
    /\ gpsHealth = NoGpsHealth
    /\ flight_data = <<>>
    /\ time_series = <<>>
    /\ ingest_pc = "parsed"

\* logs with battery telemetry from up to four message types
BatteryLogInit ==
    /\ ExtractIdle
    /\ ReportIdle
    /\ ChatIdle
    /\ DetectIdle
    /\ PhaseIdle
    /\ ResolveIdle
    /\ QueryIdle
    /\ \E sys \in Optional(SysStatusLogs),
          bat \in Optional(BatteryStatusLogs),
          sp \in Optional(ScaledPressureLogs),
          nvf \in Optional(NamedValueLogs) :
          messages = MessagesOf(<<<<"SYS_STATUS", sys>>, <<"BATTERY_STATUS", bat>>,
                                  <<"SCALED_PRESSURE", sp>>,
                                  <<"NAMED_VALUE_FLOAT", nvf>>>>, 4)
    /\ IngestStart

\* logs with attitude telemetry
AttitudeLogInit ==
    /\ ExtractIdle
    /\ ReportIdle
    /\ ChatIdle
    /\ DetectIdle
    /\ PhaseIdle
    /\ ResolveIdle
    /\ QueryIdle
    /\ \E att \in Optional(AttitudeLogs) :
          messages = MessagesOf(<<<<"ATTITUDE", att>>>>, 1)
    /\ IngestStart

ExtractAttitude ==
    /\ ingest_pc = "parsed"
    /\ timeAttitude' = extractAttitude(messages)
    /\ ingest_pc' = "attitude_extracted"
    /\ UNCHANGED <<messages, battery_series, gpsHealth, flight_data, time_series>>
    /\ UNCHANGED <<detectVars, queryVars, phaseVars, resolveVars, extractVars, reportVars, chatVars>>

ExtractBatterySeries ==
    /\ ingest_pc = "attitude_extracted"
    /\ battery_series' = extractBatterySeries(messages)
    /\ ingest_pc' = "extracted"
    /\ UNCHANGED <<messages, timeAttitude, gpsHealth, flight_data, time_series>>
    /\ UNCHANGED <<detectVars, queryVars, phaseVars, resolveVars, extractVars, reportVars, chatVars>>

\* the upload: the backend normalises the payload and keeps the result
NormalizeFlightData ==
    /\ ingest_pc = "extracted"
    /\ flight_data' = normalize_flight_data(
            [timeAttitude |-> timeAttitude, battery_series |-> battery_series])
    /\ ingest_pc' = "normalized"
    /\ UNCHANGED <<messages, timeAttitude, battery_series, gpsHealth, time_series>>
    /\ UNCHANGED <<detectVars, queryVars, phaseVars, resolveVars, extractVars, reportVars, chatVars>>

ExtractTimeSeriesData ==
    /\ ingest_pc = "normalized"
    /\ time_series' = extract_time_series_data(flight_data)
    /\ ingest_pc' = "series_extracted"
    /\ UNCHANGED <<messages, timeAttitude, battery_series, gpsHealth, flight_data>>
    /\ UNCHANGED <<detectVars, queryVars, phaseVars, resolveVars, extractVars, reportVars, chatVars>>

IngestNext ==
    \/ ExtractAttitude
    \/ ExtractBatterySeries
    \/ NormalizeFlightData
    \/ ExtractTimeSeriesData

SpecBatteryLog == BatteryLogInit /\ [][IngestNext]_vars

SpecAttitudeLog == AttitudeLogInit /\ [][IngestNext]_vars

-----------------------------------------------------------------------------
(* GPS health: extractGpsHealth of the log viewer, GPS rules of the         *)
(* detector.  Accuracies are in tenths of a metre.                         *)

\* most GPS_RAW_INT messages in a log
MaxGps == 3

\* gps[name][i], undefined when the message type has no such array
Field(m, name, i) == IF name \in DOMAIN m THEN m[name][i] ELSE undefined

\* const fixName = (ft) => map[ft] || String(ft)
fixName(ft) ==
    CASE ft = 0 -> "NO_GPS"
      [] ft = 1 -> "NO_FIX"
      [] ft = 2 -> "2D_FIX"
      [] ft = 3 -> "3D_FIX"
      [] ft = 4 -> "DGPS"
      [] ft = 5 -> "RTK_FLOAT"
      [] ft = 6 -> "RTK_FIXED"
      [] ft = 7 -> "STATIC"
      [] ft = 8 -> "PPP"
      [] OTHER -> ToString(ft)

\* parseFloat of a number
parseFloat(x) == x

\* the entry pushed to status_changes for every report with a fix_type
StatusChangeEveryReport(t, curr, lastFix) ==
    <<[timestamp |-> t, status |-> fixName(curr), fix_type |-> curr]>>

\* the entry pushed to status_changes when the fix type is the first one or
\* differs from the last one: lastFix === null || curr !== lastFix
StatusChange(t, curr, lastFix) ==
    IF lastFix = undefined \/ curr # lastFix[1]
    THEN <<[timestamp |-> t, status |-> fixName(curr), fix_type |-> curr]>>
    ELSE <<>>

RECURSIVE GpsLoop(_, _, _, _)
\* the body of for (const i in gps.time_boot_ms), from message i on
GpsLoop(gps, i, health, lastFix) ==
    IF i > Len(gps.time_boot_ms) THEN health
    ELSE LET t == gps.time_boot_ms[i]
             sat == Field(gps, "satellites_visible", i)
             eph == Field(gps, "eph", i)
             epv == Field(gps, "epv", i)
             h_acc == Field(gps, "h_acc", i)
             v_acc == Field(gps, "v_acc", i)
             fix == Field(gps, "fix_type", i)
             hasHAcc == h_acc # undefined
             hasVAcc == v_acc # undefined
             counts == IF sat # undefined
                       THEN Append(health.satellite_counts, parseInt(sat[1]))
                       ELSE health.satellite_counts
             quality == IF eph # undefined
                        THEN Append(health.signal_quality,
                                 [timestamp |-> t,
                                  hdop |-> Some(parseFloat(eph[1])),
                                  vdop |-> IF epv # undefined
                                           THEN Some(parseFloat(epv[1]))
                                           ELSE undefined])
                        ELSE health.signal_quality
             accuracy == IF hasHAcc \/ hasVAcc
                         THEN Append(health.accuracy_metrics,
                                  [timestamp |-> t,
                                   hacc |-> IF hasHAcc
                                            THEN Some(parseFloat(h_acc[1]))
                                            ELSE undefined,
                                   vacc |-> IF hasVAcc
                                            THEN Some(parseFloat(v_acc[1]))
                                            ELSE undefined])
                         ELSE health.accuracy_metrics
             pushed == IF fix # undefined
                       THEN StatusChange(t, parseInt(fix[1]), lastFix)
                       ELSE <<>>
         IN  GpsLoop(gps, i + 1,
                 [status_changes |-> health.status_changes \o pushed,
                  satellite_counts |-> counts,
                  signal_quality |-> quality,
                  accuracy_metrics |-> accuracy],
                 IF pushed # <<>> THEN Some(parseInt(fix[1])) ELSE lastFix)

\* GPS_STATUS: satellite visibility without timestamps, used only when
\* GPS_RAW_INT gave no satellite count
GpsStatusCounts(msgs, health) ==
    IF /\ "GPS_STATUS" \in DOMAIN msgs
       /\ Len(health.satellite_counts) = 0
       /\ "satellites_visible" \in DOMAIN msgs.GPS_STATUS
    THEN [health EXCEPT !.satellite_counts =
             [i \in Indices(msgs.GPS_STATUS.satellites_visible) |->
                 parseInt(msgs.GPS_STATUS.satellites_visible[i])]]
    ELSE health

extractGpsHealth(msgs) ==
    GpsStatusCounts(msgs,
        IF "GPS_RAW_INT" \in DOMAIN msgs
        THEN GpsLoop(msgs.GPS_RAW_INT, 1, NoGpsHealth, undefined)
        ELSE NoGpsHealth)

GpsSignalLostNoGpsOnly(status) == status \in {"NO_GPS"}

\* if status in ['NO_GPS', 'NO_FIX']
GpsSignalLost(status) == status \in {"NO_GPS", "NO_FIX"}

RECURSIVE SignalLossLoop(_, _, _)
SignalLossLoop(changes, i, out) ==
    IF i > Len(changes) THEN out
    ELSE SignalLossLoop(changes, i + 1,
             IF GpsSignalLost(changes[i].status)
             THEN Append(out, [type |-> "GPS_SIGNAL_LOSS", severity |-> "high",
                               index |-> i,
                               timestamp |-> changes[i].timestamp,
                               status |-> changes[i].status])
             ELSE out)

RapidDropFromThree(prev_count, count) ==
    prev_count # undefined /\ prev_count[1] - count >= 3

\* prev_count is not None and prev_count - count > 3
RapidDrop(prev_count, count) ==
    prev_count # undefined /\ prev_count[1] - count > 3

RECURSIVE SatelliteLoop(_, _, _, _)
\* the counts one after the other, prev_count being the count before
SatelliteLoop(counts, i, prev_count, out) ==
    IF i > Len(counts) THEN out
    ELSE SatelliteLoop(counts, i + 1, Some(counts[i]),
             IF RapidDrop(prev_count, counts[i])
             THEN Append(out, [type |-> "SATELLITE_COUNT_DROP",
                               severity |-> "high",
                               index |-> i,
                               prev_count |-> prev_count[1],
                               count |-> counts[i]])
             ELSE out)

\* an accuracy entry that carries a horizontal accuracy
HasHacc(entry) == entry.hacc # undefined

PoorAccuracyInclusive(hacc) == hacc >= 50

\* if hacc > 5.0
PoorAccuracy(hacc) == hacc > 50

\* 'critical' if hacc > 20.0 else 'medium'
AccuracySeverity(hacc) == IF hacc > 200 THEN "critical" ELSE "medium"

RECURSIVE AccuracyLoop(_, _, _)
AccuracyLoop(metrics, i, out) ==
    IF i > Len(metrics) THEN out
    ELSE AccuracyLoop(metrics, i + 1,
             IF HasHacc(metrics[i]) /\ PoorAccuracy(metrics[i].hacc[1])
             THEN Append(out, [type |-> "GPS_ACCURACY_DEGRADATION",
                               severity |-> AccuracySeverity(metrics[i].hacc[1]),
                               index |-> i,
                               timestamp |-> metrics[i].timestamp,
                               hacc |-> metrics[i].hacc[1]])
             ELSE out)

\* signal loss, satellite count drops, accuracy degradation, in this order
detect_gps_anomalies(health) ==
    SignalLossLoop(health.status_changes, 1, <<>>)
        \o SatelliteLoop(health.satellite_counts, 1, undefined, <<>>)
        \o AccuracyLoop(health.accuracy_metrics, 1, <<>>)

\* time_boot_ms of k reports: 1, 2, ..., k
ReportTimes(k) == [i \in 1..k |-> i]

\* reports with a fix type (none, no fix, 3D fix, an unnamed type) or
\* without one
FixTypeLogs ==
    UNION {{[time_boot_ms |-> ReportTimes(k), fix_type |-> f]
               : f \in [1..k -> {undefined, Some(0), Some(1), Some(3), Some(9)}]}
           : k \in 0..MaxGps}

\* reports with 5, 6, 9 or 10 visible satellites, or without a count
SatelliteLogs ==
    UNION {{[time_boot_ms |-> ReportTimes(k), satellites_visible |-> v]
               : v \in [1..k -> {undefined, Some(5), Some(6), Some(9), Some(10)}]}
           : k \in 0..MaxGps}

\* reports with a horizontal accuracy of 5.0, 5.1, 20.0, 20.1 m or none,
\* and a vertical accuracy of 1.0 m or none
AccuracyLogs ==
    UNION {{[time_boot_ms |-> ReportTimes(k), h_acc |-> h, v_acc |-> v]
               : h \in [1..k -> {undefined, Some(50), Some(51), Some(200), Some(201)}],
                 v \in [1..k -> {undefined, Some(10)}]}
           : k \in 0..MaxGps}

\* reports with dilution of precision: eph 1.2 or none, epv 1.8 or none
PrecisionLogs ==
    UNION {{[time_boot_ms |-> ReportTimes(k), eph |-> h, epv |-> v]
               : h \in [1..k -> {undefined, Some(12)}],
                 v \in [1..k -> {undefined, Some(18)}]}
           : k \in 0..MaxGps}

\* GPS_STATUS snapshots: no satellites_visible entry, or 10 then 5
GpsStatusLogs ==
    {[satellites_visible |-> <<>>], [satellites_visible |-> <<10, 5>>]}

\* logs with GPS telemetry
GpsLogInit ==
    /\ ExtractIdle
    /\ ReportIdle
    /\ ChatIdle
    /\ DetectIdle
    /\ PhaseIdle
    /\ ResolveIdle
    /\ QueryIdle
    /\ \/ \E raw \in FixTypeLogs \cup AccuracyLogs \cup PrecisionLogs :
             messages = MessagesOf(<<<<"GPS_RAW_INT", Some(raw)>>>>, 1)
       \/ \E raw \in Optional(SatelliteLogs), status \in Optional(GpsStatusLogs) :
             messages = MessagesOf(<<<<"GPS_RAW_INT", raw>>,
                                     <<"GPS_STATUS", status>>>>, 2)
    /\ IngestStart

ExtractGpsHealth ==
    /\ ingest_pc = "parsed"
    /\ gpsHealth' = extractGpsHealth(messages)
    /\ ingest_pc' = "gps_extracted"
    /\ UNCHANGED <<messages, timeAttitude, battery_series, flight_data, time_series>>
    /\ UNCHANGED <<detectVars, queryVars, phaseVars, resolveVars, extractVars, reportVars, chatVars>>

\* _detect_gps_anomalies on the GPS health of the flight
DetectGpsAnomalies ==
    /\ ingest_pc = "gps_extracted"
    /\ anomalies' = anomalies \o detect_gps_anomalies(gpsHealth)
    /\ ingest_pc' = "gps_done"
    /\ UNCHANGED <<parameter, data_points, stats, error, pc>>
    /\ UNCHANGED <<messages, timeAttitude, battery_series, gpsHealth, flight_data,
                 time_series>>
    /\ UNCHANGED <<queryVars, phaseVars, resolveVars, extractVars, reportVars, chatVars>>

GpsNext ==
    \/ ExtractGpsHealth
    \/ DetectGpsAnomalies

SpecGpsLog == GpsLogInit /\ [][GpsNext]_vars

-----------------------------------------------------------------------------
(* Battery rules on the battery series of a log.                           *)

\* the battery_voltage series: the samples that carry a voltage, as
\* (timestamp, value) points; samples without one are left out
VoltagePoints(samples) ==
    LET kept == SelectSeq(samples, LAMBDA b : IsNumber(b.voltage))
    IN  [i \in 1..Len(kept) |->
            [timestamp |-> kept[i].timestamp, value |-> kept[i].voltage[1]]]

BatteryCriticalLowInclusive(voltage) == voltage <= 105

\* voltage < 10.5
BatteryCriticalLow(voltage) == voltage < 105

RECURSIVE BatteryLoop(_, _, _)
BatteryLoop(points, i, out) ==
    IF i > Len(points) THEN out
    ELSE BatteryLoop(points, i + 1,
             IF BatteryCriticalLow(points[i].value)
             THEN Append(out, [type |-> "BATTERY_CRITICAL_LOW",
                               severity |-> "critical",
                               index |-> i,
                               timestamp |-> points[i].timestamp,
                               value |-> points[i].value])
             ELSE out)

detect_battery_anomalies(points) == BatteryLoop(points, 1, <<>>)

\* the logs' SYS_STATUS messages with voltages around the two limits:
\* 9.9 V, 10.0 V, 10.499 V, 10.5 V, or no voltage in the message
VoltageLogs ==
    UNION {{[time_boot_ms |-> t,
             voltage_battery |-> v,
             current_battery |-> [i \in 1..Len(t) |-> Some(150)],
             battery_remaining |-> [i \in 1..Len(t) |-> Some(80)]]
               : v \in [1..Len(t) -> {undefined, Some(9900), Some(10000),
                                      Some(10499), Some(10500)}]}
           : t \in TimeArrays(MaxMsgs)}

\* logs whose battery telemetry is SYS_STATUS
VoltageLogInit ==
    /\ ExtractIdle
    /\ ReportIdle
    /\ ChatIdle
    /\ DetectIdle
    /\ PhaseIdle
    /\ ResolveIdle
    /\ QueryIdle
    /\ \E sys \in Optional(VoltageLogs) :
          messages = MessagesOf(<<<<"SYS_STATUS", sys>>>>, 1)
    /\ IngestStart

\* the threshold rule on the battery_voltage series
DetectBatteryThresholds ==
    /\ ingest_pc = "series_extracted"
    /\ anomalies' = anomalies \o
          detect_threshold_violations("battery_voltage",
                                      VoltagePoints(time_series.battery))
    /\ ingest_pc' = "battery_threshold_done"
    /\ UNCHANGED <<parameter, data_points, stats, error, pc>>
    /\ UNCHANGED <<messages, timeAttitude, battery_series, gpsHealth, flight_data,
                 time_series>>
    /\ UNCHANGED <<queryVars, phaseVars, resolveVars, extractVars, reportVars, chatVars>>

\* the battery-critical rule on the battery_voltage series
DetectBatteryAnomalies ==
    /\ ingest_pc = "battery_threshold_done"
    /\ anomalies' = anomalies \o
          detect_battery_anomalies(VoltagePoints(time_series.battery))
    /\ ingest_pc' = "battery_done"
    /\ UNCHANGED <<parameter, data_points, stats, error, pc>>
    /\ UNCHANGED <<messages, timeAttitude, battery_series, gpsHealth, flight_data,
                 time_series>>
    /\ UNCHANGED <<queryVars, phaseVars, resolveVars, extractVars, reportVars, chatVars>>

BatteryRulesNext ==
    \/ IngestNext
    \/ DetectBatteryThresholds
    \/ DetectBatteryAnomalies

SpecBatteryRules == VoltageLogInit /\ [][BatteryRulesNext]_vars

-----------------------------------------------------------------------------
(* Flight phases from the altitude series.  The thresholds min_alt +       *)
(* alt_range * 0.1 and so on are compared after multiplying by 10.         *)

\* longest altitude series of the general input family
MaxAlt == 4

InTakeoffBandInclusive(a, min_alt, alt_range) ==
    10 * a >= 10 * min_alt + alt_range

\* a > takeoff_threshold, takeoff_threshold = min_alt + alt_range * 0.1
InTakeoffBand(a, min_alt, alt_range) ==
    10 * a > 10 * min_alt + alt_range

\* cruise_threshold <= a <= max_alt - alt_range * 0.1,
\* cruise_threshold = min_alt + alt_range * 0.3
InCruiseBand(a, min_alt, max_alt, alt_range) ==
    /\ 10 * min_alt + 3 * alt_range <= 10 * a
    /\ 10 * a <= 10 * max_alt - alt_range

\* the mirror of the takeoff band: as far below the highest altitude as the
\* takeoff band is above the lowest
InLandingBand(a, max_alt, alt_range) ==
    10 * a < 10 * max_alt - alt_range

\* one phase spanning the points of a band, none for a band without points
PhaseOf(name, points) ==
    IF points = <<>> THEN <<>>
    ELSE <<[phase |-> name,
            start_time |-> SeqMin(Timestamps(points)),
            end_time |-> SeqMax(Timestamps(points)),
            altitude_range |-> <<SeqMin(Values(points)), SeqMax(Values(points))>>]>>

identify_flight_phases(alt) ==
    IF alt = <<>> THEN <<>>
    ELSE LET altitudes == Values(alt)
             min_alt == SeqMin(altitudes)
             max_alt == SeqMax(altitudes)
             alt_range == max_alt - min_alt
             takeoff_points ==
                 SelectSeq(alt, LAMBDA q : InTakeoffBand(q.value, min_alt, alt_range))
             cruise_points ==
                 SelectSeq(alt, LAMBDA q :
                               InCruiseBand(q.value, min_alt, max_alt, alt_range))
             landing_points ==
                 SelectSeq(alt, LAMBDA q : InLandingBand(q.value, max_alt, alt_range))
         IN  PhaseOf("takeoff", takeoff_points)
                 \o PhaseOf("cruise", cruise_points)
                 \o PhaseOf("landing", landing_points)

\* altitudes, in metres, of the general input family: with 0 and 10 in a
\* series the takeoff threshold is 1 and the cruise band is 3..9
AltitudeValues == {0, 1, 3, 9, 10}

\* 100 samples: a climb from 0 m to 50 m, a hold at 50 m, a descent to 0 m
ClimbHoldDescend ==
    [i \in 1..100 |->
        IF i <= 26 THEN 2 * (i - 1)
        ELSE IF i <= 75 THEN 50
        ELSE 50 - 2 * (i - 75)]

AltitudeSeries ==
    UNION {[1..n -> AltitudeValues] : n \in 0..MaxAlt} \cup {ClimbHoldDescend}

PhaseInit ==
    /\ ExtractIdle
    /\ ReportIdle
    /\ ChatIdle
    /\ DetectIdle
    /\ QueryIdle
    /\ IngestIdle
    /\ ResolveIdle
    /\ \E altitudes \in AltitudeSeries : alt_data = MakePoints(altitudes, <<1, 1>>)
    /\ flight_phases = <<>>
    /\ phase_pc = "extracted"

\* _identify_flight_phases on the gps_alt series
IdentifyFlightPhases ==
    /\ phase_pc = "extracted"
    /\ flight_phases' = identify_flight_phases(alt_data)
    /\ phase_pc' = "done"
    /\ UNCHANGED alt_data
    /\ UNCHANGED <<detectVars, queryVars, ingestVars, resolveVars, extractVars, reportVars, chatVars>>

PhaseNext == IdentifyFlightPhases

SpecPhases == PhaseInit /\ [][PhaseNext]_vars

-----------------------------------------------------------------------------
(* Parameter resolution.  A name is the sequence of its characters.        *)

\* most samples of a series of the queried flight data
MaxResolvePoints == 2

\* the characters of the names below, in code-point order
Characters == <<"A", "C", "I", "L", "R", "S", "T", "W", "_", "c", "i", "m", "n", "p", "r", "s", "t", "u", "y">>

\* the place of a character in the code-point order
CodeOf(ch) == CHOOSE i \in 1..Len(Characters) : Characters[i] = ch

UpperCase == <<"A", "C", "I", "L", "R", "S", "T", "W">>
LowerCase == <<"a", "c", "i", "l", "r", "s", "t", "w">>

\* the character in lower case
ToLower(ch) ==
    IF \E i \in 1..Len(UpperCase) : UpperCase[i] = ch
    THEN LowerCase[CHOOSE i \in 1..Len(UpperCase) : UpperCase[i] = ch]
    ELSE ch

\* the name in lower case
LowerOf(str) == [i \in 1..Len(str) |-> ToLower(str[i])]

\* the names are equal when case is ignored
EqualIgnoringCase(a, b) == LowerOf(a) = LowerOf(b)

\* sub occurs in str as a run of consecutive characters
Contains(str, sub) ==
    \E i \in 0..(Len(str) - Len(sub)) : SubSeq(str, i + 1, i + Len(sub)) = sub

RECURSIVE LexLess(_, _)
\* a stands before b in lexicographic order
LexLess(a, b) ==
    IF b = <<>> THEN FALSE
    ELSE IF a = <<>> THEN TRUE
    ELSE IF a[1] # b[1] THEN CodeOf(a[1]) < CodeOf(b[1])
    ELSE LexLess(Tail(a), Tail(b))

\* the lexicographically first name of a set of names that is not empty
LexFirst(names) == CHOOSE a \in names : \A b \in names \ {a} : LexLess(a, b)

\* the series names of the checked flight data
RSSI == <<"R", "S", "S", "I">>
rssi == <<"r", "s", "s", "i">>
RC_RSSI == <<"R", "C", "_", "R", "S", "S", "I">>
RSSI_RAW == <<"R", "S", "S", "I", "_", "R", "A", "W">>
rc_inputs == <<"r", "c", "_", "i", "n", "p", "u", "t", "s">>
my_rssi == <<"m", "y", "_", "r", "s", "s", "i">>
ALT == <<"A", "L", "T">>

\* the documented alias table, for the names above: RSSI is
\* rc_inputs.signal_strength
AliasTable == [n \in {RSSI} |-> rc_inputs]

\* the points a source gives for a name: <<source name, points>>, the
\* points being empty when the source has nothing
ExactSource(data, param) ==
    IF param \in DOMAIN data THEN <<param, data[param]>> ELSE <<param, <<>>>>

\* the field of the alias where the samples carry it
AliasSource(data, param) ==
    IF param \in DOMAIN AliasTable /\ AliasTable[param] \in DOMAIN data
    THEN <<AliasTable[param],
           SelectSeq(data[AliasTable[param]], LAMBDA q : q.value # undefined)>>
    ELSE <<param, <<>>>>

CaseInsensitiveSource(data, param) ==
    LET found == {n \in DOMAIN data : EqualIgnoringCase(n, param)}
    IN  IF found # {} THEN <<LexFirst(found), data[LexFirst(found)]>>
        ELSE <<param, <<>>>>

SubstringSource(data, param) ==
    LET found == {n \in DOMAIN data : Contains(n, param)}
    IN  IF found # {} THEN <<LexFirst(found), data[LexFirst(found)]>>
        ELSE <<param, <<>>>>

SourceOf(kind, data, param) ==
    CASE kind = "exact" -> ExactSource(data, param)
      [] kind = "alias" -> AliasSource(data, param)
      [] kind = "case_insensitive" -> CaseInsensitiveSource(data, param)
      [] kind = "substring" -> SubstringSource(data, param)

AliasFirst == <<"alias", "exact", "case_insensitive", "substring">>

\* the sources in the order they are tried
ResolutionOrder == <<"exact", "alias", "case_insensitive", "substring">>

RECURSIVE FirstNonEmpty(_, _, _)
\* the result of the first source, from the k-th on, that is not empty
FirstNonEmpty(data, param, k) ==
    IF k > Len(ResolutionOrder) THEN <<param, <<>>>>
    ELSE LET tried == SourceOf(ResolutionOrder[k], data, param)
         IN  IF tried[2] # <<>> THEN tried
             ELSE FirstNonEmpty(data, param, k + 1)

\* _extract_parameter_data: the points of the first source that has some,
\* by ascending timestamp
extract_parameter_data(data, param) ==
    LET found == FirstNonEmpty(data, param, 1)
    IN  [source |-> found[1],
         points |-> SortByTimestamp(found[2], Len(found[2]))]

SeriesNames == {RSSI, rssi, RC_RSSI, RSSI_RAW, rc_inputs, my_rssi}

\* timestamps of a series, in the order of the input
ResolveTimes == UNION {[1..n -> 1..2] : n \in 1..MaxResolvePoints}

\* the flight data with the given series: every series has the same
\* timestamps, the value of a sample is the number of characters of its
\* series name and tells the series apart; the samples of rc_inputs carry
\* a signal_strength or none of them does
FlightDataOf(names, times, with_signal) ==
    [n \in names |->
        [i \in 1..Len(times) |->
            [timestamp |-> times[i],
             value |-> IF n = rc_inputs /\ ~with_signal THEN undefined
                       ELSE Some(Len(n))]]]

ResolveInit ==
    /\ ExtractIdle
    /\ ReportIdle
    /\ ChatIdle
    /\ DetectIdle
    /\ QueryIdle
    /\ IngestIdle
    /\ PhaseIdle
    /\ \E names \in SUBSET SeriesNames, times \in ResolveTimes,
          with_signal \in BOOLEAN :
          known_series = FlightDataOf(names, times, with_signal)
    /\ requested \in {RSSI, rssi, ALT}
    /\ resolved = <<>>
    /\ resolve_pc = "ready"

ExtractParameterData ==
    /\ resolve_pc = "ready"
    /\ resolved' = extract_parameter_data(known_series, requested)
    /\ resolve_pc' = "done"
    /\ UNCHANGED <<known_series, requested>>
    /\ UNCHANGED <<detectVars, queryVars, ingestVars, phaseVars, extractVars, reportVars, chatVars>>

ResolveNext == ExtractParameterData

SpecResolve == ResolveInit /\ [][ResolveNext]_vars

-----------------------------------------------------------------------------
(* The log viewer's parameter extraction, and the backend's flattening of  *)
(* its [time, name, value] triples into a {name: value} mapping.           *)
(* Parameter names are sequences of characters.                            *)

MaxParams == 3
MaxParamValue == 1

\* the characters that the pattern [^a-z0-9A-Z_] leaves in a name
WordCharacters == {"A", "B", "N", "a", "e", "m", "p", "r", "_", "0", "1"}

\* param_id.replace(/[^a-z0-9A-Z_]/ig, '')
Sanitize(param_id) == SelectSeq(param_id, LAMBDA ch : ch \in WordCharacters)

\* the property name that the expression lastValue.paramName reads
paramName == <<"p", "a", "r", "a", "m", "N", "a", "m", "e">>

\* obj[key] = value
Put(obj, key, value) ==
    [k \in DOMAIN obj \cup {key} |-> IF k = key THEN value ELSE obj[k]]

\* a repeat is skipped as soon as any value was recorded for the name
SkipParamOnceSeen(lastValue, name, value) == name \in DOMAIN lastValue

\* lastValue.paramName && lastValue[paramName] === paramValue: the property
\* called paramName is there and is not 0, and the property of the name is
\* there and is the value
SkipParam(lastValue, name, value) ==
    /\ paramName \in DOMAIN lastValue
    /\ lastValue[paramName] # 0
    /\ name \in DOMAIN lastValue
    /\ lastValue[name] = value

RECURSIVE ParamLoop(_, _)
\* the loop over the PARAM_VALUE messages up to message n: the triples that
\* were pushed and the lastValue object
ParamLoop(paramData, n) ==
    IF n = 0 THEN [params |-> <<>>, lastValue |-> <<>>]
    ELSE LET before == ParamLoop(paramData, n - 1)
             name == Sanitize(paramData.param_id[n])
             paramValue == paramData.param_value[n]
         IN  IF SkipParam(before.lastValue, name, paramValue) THEN before
             ELSE [params |->
                      Append(before.params,
                             <<paramData.time_boot_ms[n], name, paramValue>>),
                   lastValue |-> Put(before.lastValue, name, paramValue)]

\* extractParams: the triples handed to the ParamSeeker, undefined when
\* there are none
extractParams(msgs) ==
    LET pushed == IF "PARAM_VALUE" \in DOMAIN msgs
                  THEN ParamLoop(msgs.PARAM_VALUE,
                                 Len(msgs.PARAM_VALUE.time_boot_ms)).params
                  ELSE <<>>
    IN  IF Len(pushed) > 0 THEN pushed ELSE undefined

RECURSIVE FlattenParams(_, _)
\* the triples up to triple n flattened to {name: value}: a later triple
\* overwrites an earlier one of the same name
FlattenParams(triples, n) ==
    IF n = 0 THEN <<>>
    ELSE Put(FlattenParams(triples, n - 1), triples[n][2], triples[n][3])

\* the parameter ids of the logs: plain, padded, and the name "paramName"
ParamIds == {<<"A">>, <<"A", " ">>, <<"B">>, paramName}

\* the logs' PARAM_VALUE messages, one boot-time tick apart
ParamValueLogs ==
    UNION {{[time_boot_ms |-> [i \in 1..n |-> i], param_id |-> ids,
             param_value |-> values]
               : ids \in [1..n -> ParamIds], values \in [1..n -> 0..MaxParamValue]}
           : n \in 0..MaxParams}

\* logs with parameter messages
ParamLogInit ==
    /\ DetectIdle
    /\ QueryIdle
    /\ PhaseIdle
    /\ ResolveIdle
    /\ ReportIdle
    /\ ChatIdle
    /\ \E pv \in Optional(ParamValueLogs) :
          messages = MessagesOf(<<<<"PARAM_VALUE", pv>>>>, 1)
    /\ timeAttitude = <<>>
    /\ battery_series = <<>>
    /\ gpsHealth = NoGpsHealth
    /\ flight_data = <<>>
    /\ time_series = <<>>
    /\ ingest_pc = "idle"
    /\ flightModes = <<>>
    /\ params = <<>>
    /\ params_dict = <<>>
    /\ trajectories = <<>>
    /\ extract_pc = "parsed"

ExtractParams ==
    /\ extract_pc = "parsed"
    /\ params' = extractParams(messages)
    /\ extract_pc' = "params_extracted"
    /\ UNCHANGED <<flightModes, params_dict, trajectories>>
    /\ UNCHANGED <<detectVars, queryVars, ingestVars, phaseVars, resolveVars, reportVars, chatVars>>

\* the upload: the backend flattens the triples
NormalizeParams ==
    /\ extract_pc = "params_extracted"
    /\ params_dict' = FlattenParams(params, Len(params))
    /\ extract_pc' = "params_normalized"
    /\ UNCHANGED <<flightModes, params, trajectories>>
    /\ UNCHANGED <<detectVars, queryVars, ingestVars, phaseVars, resolveVars, reportVars, chatVars>>

ParamNext == ExtractParams \/ NormalizeParams

SpecParamLog == ParamLogInit /\ [][ParamNext]_vars

-----------------------------------------------------------------------------
(* The log viewer's flight-mode extraction from the HEARTBEAT messages.    *)

MaxHeartbeats == 3

\* the vehicle types whose heartbeats are read; MAV_TYPE_GCS is not one
validGCSs ==
    {"MAV_TYPE_FIXED_WING", "MAV_TYPE_QUADROTOR", "MAV_TYPE_COAXIAL",
     "MAV_TYPE_HELICOPTER", "MAV_TYPE_ANTENNA_TRACKER", "MAV_TYPE_AIRSHIP",
     "MAV_TYPE_FREE_BALLOON", "MAV_TYPE_ROCKET", "MAV_TYPE_GROUND_ROVER",
     "MAV_TYPE_SURFACE_BOAT", "MAV_TYPE_SUBMARINE", "MAV_TYPE_HEXAROTOR",
     "MAV_TYPE_OCTOROTOR", "MAV_TYPE_TRICOPTER", "MAV_TYPE_FLAPPING_WING",
     "MAV_TYPE_KITE"}

\* the value null, which is neither undefined nor a defined value
null == <<"null", "null">>

\* modes = [[msgs.time_boot_ms[0], msgs.asText[0]]]; element 0 of an empty
\* array is undefined
Seed(msgs) ==
    IF Len(msgs.time_boot_ms) = 0 THEN <<<<undefined, undefined>>>>
    ELSE <<<<Some(msgs.time_boot_ms[1]), msgs.asText[1]>>>>

RECURSIVE FlightModesLoop(_, _)
\* the loop over the heartbeats up to heartbeat n: the modes list and the
\* asText array of the messages, in which the loop writes
FlightModesLoop(msgs, n) ==
    IF n = 0 THEN [modes |-> Seed(msgs), asText |-> msgs.asText]
    ELSE LET before == FlightModesLoop(msgs, n - 1)
             asText == IF /\ msgs.type[n] \in validGCSs
                          /\ before.asText[n] = undefined
                       THEN [before.asText EXCEPT ![n] = Some("Unknown")]
                       ELSE before.asText
             last == before.modes[Len(before.modes)][2]
         IN  IF /\ msgs.type[n] \in validGCSs
                /\ asText[n] # null
                /\ asText[n] # last
             THEN [modes |-> Append(before.modes,
                                    <<Some(msgs.time_boot_ms[n]), asText[n]>>),
                   asText |-> asText]
             ELSE [modes |-> before.modes, asText |-> asText]

\* extractFlightModes: the modes list, and the messages as the call leaves
\* them
extractFlightModes(msgs) ==
    IF "HEARTBEAT" \in DOMAIN msgs
    THEN LET done == FlightModesLoop(msgs.HEARTBEAT,
                                     Len(msgs.HEARTBEAT.time_boot_ms))
         IN  [modes |-> done.modes,
              messages |-> [msgs EXCEPT !.HEARTBEAT.asText = done.asText]]
    ELSE [modes |-> <<>>, messages |-> msgs]

\* the logs' HEARTBEAT messages, at least one, of a vehicle or of a ground
\* station, with a mode name, without one, or with null for it
HeartbeatLogs ==
    UNION {{[time_boot_ms |-> t, type |-> type, asText |-> asText]
               : type \in [1..Len(t) -> {"MAV_TYPE_QUADROTOR", "MAV_TYPE_GCS"}],
                 asText \in [1..Len(t) ->
                     {Some("STABILIZE"), Some("AUTO"), undefined, null}]}
           : t \in TimeArrays(MaxHeartbeats) \ {<<>>}}

\* logs with heartbeats
HeartbeatLogInit ==
    /\ DetectIdle
    /\ QueryIdle
    /\ PhaseIdle
    /\ ResolveIdle
    /\ ReportIdle
    /\ ChatIdle
    /\ \E hb \in Optional(HeartbeatLogs) :
          messages = MessagesOf(<<<<"HEARTBEAT", hb>>>>, 1)
    /\ timeAttitude = <<>>
    /\ battery_series = <<>>
    /\ gpsHealth = NoGpsHealth
    /\ flight_data = <<>>
    /\ time_series = <<>>
    /\ ingest_pc = "idle"
    /\ flightModes = <<>>
    /\ params = <<>>
    /\ params_dict = <<>>
    /\ trajectories = <<>>
    /\ extract_pc = "parsed"

ExtractFlightModes ==
    /\ extract_pc = "parsed"
    /\ flightModes' = extractFlightModes(messages).modes
    /\ messages' = extractFlightModes(messages).messages
    /\ extract_pc' = "modes_extracted"
    /\ UNCHANGED <<params, params_dict, trajectories>>
    /\ UNCHANGED <<timeAttitude, battery_series, gpsHealth, flight_data, time_series, ingest_pc>>
    /\ UNCHANGED <<detectVars, queryVars, phaseVars, resolveVars, reportVars, chatVars>>

SpecHeartbeatLog == HeartbeatLogInit /\ [][ExtractFlightModes]_vars

-----------------------------------------------------------------------------
(* The log viewer's trajectory extraction.  Longitudes and latitudes are   *)
(* held in units of 1e-7 degrees and altitudes in millimetres, so that the *)
(* scalings * 1e-7 and / 1000 of the code stay within the integers.        *)

MaxTrack == 3
MaxAltitude == 1

\* the GLOBAL_POSITION_INT messages as the loop reads them: the fields are
\* taken as they are, v degrees being v * 10000000 units and v metres being
\* v * 1000 millimetres
GlobalPositionPoints(gpsData) ==
    [i \in 1..Len(gpsData.time_boot_ms) |->
        [lon |-> gpsData.lon[i] * 10000000, lat |-> gpsData.lat[i] * 10000000,
         alt |-> gpsData.relative_alt[i] * 1000,
         time |-> gpsData.time_boot_ms[i], emitted |-> gpsData.lat[i] # 0]]

\* the GPS_RAW_INT messages as the loop reads them: lon * 1e-7 degrees is
\* lon units, and alt / 1000 metres is alt millimetres
GpsRawPoints(gpsData) ==
    [i \in 1..Len(gpsData.time_boot_ms) |->
        [lon |-> gpsData.lon[i], lat |-> gpsData.lat[i],
         alt |-> gpsData.alt[i],
         time |-> gpsData.time_boot_ms[i], emitted |-> gpsData.lat[i] # 0]]

\* the AHRS2 messages as the loop reads them: lng * 1e-7, lat * 1e-7, the
\* altitude as it is; every message is emitted
Ahrs2Points(gpsData) ==
    [i \in 1..Len(gpsData.time_boot_ms) |->
        [lon |-> gpsData.lng[i], lat |-> gpsData.lat[i],
         alt |-> gpsData.altitude[i] * 1000,
         time |-> gpsData.time_boot_ms[i], emitted |-> TRUE]]

\* the AHRS3 messages as the loop reads them
Ahrs3Points(gpsData) ==
    [i \in 1..Len(gpsData.time_boot_ms) |->
        [lon |-> gpsData.lng[i], lat |-> gpsData.lat[i],
         alt |-> gpsData.altitude[i] * 1000,
         time |-> gpsData.time_boot_ms[i], emitted |-> gpsData.lat[i] # 0]]

\* the altitude that startAltitude is set to while message i is emitted:
\* GLOBAL_POSITION_INT reads index i, the other sources read index 0
StartAltitudeAt(source, points, i) ==
    IF source = "GLOBAL_POSITION_INT" THEN points[i].alt ELSE points[1].alt

RECURSIVE TrajectoryLoop(_, _, _)
\* the loop over the messages up to message n
TrajectoryLoop(source, points, n) ==
    IF n = 0
    THEN [startAltitude |-> null, trajectory |-> <<>>, timeTrajectory |-> <<>>]
    ELSE LET before == TrajectoryLoop(source, points, n - 1)
             p == points[n]
             startAltitude == IF before.startAltitude = null
                              THEN Some(StartAltitudeAt(source, points, n))
                              ELSE before.startAltitude
         IN  IF p.emitted
             THEN [startAltitude |-> startAltitude,
                   trajectory |->
                       Append(before.trajectory,
                              <<p.lon, p.lat, p.alt - startAltitude[1], p.time>>),
                   timeTrajectory |->
                       Put(before.timeTrajectory, p.time,
                           <<p.lon, p.lat, p.alt, p.time>>)]
             ELSE before

\* the messages of the source as the loop of the source reads them
PointsOf(source, gpsData) ==
    CASE source = "GLOBAL_POSITION_INT" -> GlobalPositionPoints(gpsData)
      [] source = "GPS_RAW_INT" -> GpsRawPoints(gpsData)
      [] source = "AHRS2" -> Ahrs2Points(gpsData)
      [] source = "AHRS3" -> Ahrs3Points(gpsData)

\* extractTrajectory: the record of the source, when the log has messages of
\* the source and a point was emitted
extractTrajectory(msgs, source) ==
    IF source \in DOMAIN msgs
    THEN LET points == PointsOf(source, msgs[source])
             done == TrajectoryLoop(source, points, Len(points))
         IN  IF Len(done.trajectory) > 0
             THEN [s \in {source} |-> done]
             ELSE <<>>
    ELSE <<>>

\* the positions of up to MaxTrack messages: the longitude tells the
\* messages apart, the latitude is 0 before the first fix
Positions ==
    UNION {{[time_boot_ms |-> t, lon |-> [i \in 1..Len(t) |-> 10 + i],
             lat |-> lat, height |-> height]
               : lat \in [1..Len(t) -> 0..1],
                 height \in [1..Len(t) -> 0..MaxAltitude]}
           : t \in TimeArrays(MaxTrack) \ {<<>>}}

\* the logs' GLOBAL_POSITION_INT messages, relative_alt as the parser gives it
GlobalPositionLogs ==
    {[time_boot_ms |-> p.time_boot_ms, lon |-> p.lon, lat |-> p.lat,
      relative_alt |-> p.height] : p \in Positions}

\* the logs' GPS_RAW_INT messages, alt in millimetres
GpsRawLogs ==
    {[time_boot_ms |-> p.time_boot_ms, lon |-> p.lon, lat |-> p.lat,
      alt |-> [i \in 1..Len(p.height) |-> 1000 * p.height[i]]]
        : p \in Positions}

\* the logs' AHRS2 and AHRS3 messages
AhrsLogs ==
    {[time_boot_ms |-> p.time_boot_ms, lng |-> p.lon, lat |-> p.lat,
      altitude |-> p.height] : p \in Positions}

\* logs with position messages of one type
TrajectoryLogInit ==
    /\ DetectIdle
    /\ QueryIdle
    /\ PhaseIdle
    /\ ResolveIdle
    /\ ReportIdle
    /\ ChatIdle
    /\ \/ \E log \in GlobalPositionLogs :
             messages = MessagesOf(<<<<"GLOBAL_POSITION_INT", Some(log)>>>>, 1)
       \/ \E log \in GpsRawLogs :
             messages = MessagesOf(<<<<"GPS_RAW_INT", Some(log)>>>>, 1)
       \/ \E log \in AhrsLogs :
             messages = MessagesOf(<<<<"AHRS2", Some(log)>>>>, 1)
       \/ \E log \in AhrsLogs :
             messages = MessagesOf(<<<<"AHRS3", Some(log)>>>>, 1)
    /\ timeAttitude = <<>>
    /\ battery_series = <<>>
    /\ gpsHealth = NoGpsHealth
    /\ flight_data = <<>>
    /\ time_series = <<>>
    /\ ingest_pc = "idle"
    /\ flightModes = <<>>
    /\ params = <<>>
    /\ params_dict = <<>>
    /\ trajectories = <<>>
    /\ extract_pc = "parsed"

ExtractTrajectory ==
    /\ extract_pc = "parsed"
    /\ \E source \in {"GLOBAL_POSITION_INT", "GPS_RAW_INT", "AHRS2", "AHRS3"} :
          trajectories' = extractTrajectory(messages, source)
    /\ extract_pc' = "trajectory_extracted"
    /\ UNCHANGED <<flightModes, params, params_dict>>
    /\ UNCHANGED <<detectVars, queryVars, ingestVars, phaseVars, resolveVars, reportVars, chatVars>>

SpecTrajectoryLog == TrajectoryLogInit /\ [][ExtractTrajectory]_vars

-----------------------------------------------------------------------------
(* The completeness report of a flight record.  A flight record is held as *)
(* the set of the kinds of data that are present in it; data_coverage is   *)
(* held as the fraction <<numerator, denominator>>.                        *)

\* the kinds of data a flight record can hold
DataKinds ==
    {"trajectories", "battery_series", "attitude_series", "flightModeChanges",
     "events", "params"}

expected_params == <<"GPS", "BATTERY", "ATTITUDE", "MODE", "EVENTS">>

\* the capability tokens that a kind of data makes available
TokensOf(kind) ==
    CASE kind = "trajectories" -> {"GPS", "GPS_POSITION"}
      [] kind = "battery_series" -> {"BATTERY"}
      [] kind = "attitude_series" -> {"ATTITUDE"}
      [] kind = "flightModeChanges" -> {"MODE"}
      [] kind = "events" -> {"EVENTS"}
      [] kind = "params" -> {"PARAMETERS"}

\* _get_available_parameters: the capability tokens inferred from the data
\* that is present
get_available_parameters(record) == UNION {TokensOf(kind) : kind \in record}

\* calculate_data_completeness
calculate_data_completeness(record) ==
    LET available_params == get_available_parameters(record)
    IN  [total_parameters |-> Len(expected_params),
         available_parameters |-> Cardinality(available_params),
         data_coverage |-> <<Cardinality(available_params), Len(expected_params)>>,
         temporal_coverage |-> 0,
         quality_score |-> 0]

\* any flight record
ReportInit ==
    /\ DetectIdle
    /\ QueryIdle
    /\ IngestIdle
    /\ PhaseIdle
    /\ ResolveIdle
    /\ ExtractIdle
    /\ ChatIdle
    /\ flight_record \in SUBSET DataKinds
    /\ completeness = <<>>
    /\ report_pc = "uploaded"

CalculateDataCompleteness ==
    /\ report_pc = "uploaded"
    /\ completeness' = calculate_data_completeness(flight_record)
    /\ report_pc' = "reported"
    /\ UNCHANGED flight_record
    /\ UNCHANGED <<detectVars, queryVars, ingestVars, phaseVars, resolveVars, extractVars, chatVars>>

SpecReport == ReportInit /\ [][CalculateDataCompleteness]_vars

-----------------------------------------------------------------------------
(* The chat window component.  Every action is the run of a handler from   *)
(* one await to the next: the handlers of one component run on a single    *)
(* thread and give way to each other only where they await.                *)
(* A message of the list carries, besides id, text and type, the id of the *)
(* user message whose sendMessage call added it (0 for the other           *)
(* messages); the timestamp is left out.                                   *)

MaxSent == 2

\* what the user can have typed into the input box
Inputs == {<<>>, <<" ">>, <<"h", "i">>, <<" ", "h", "i", " ">>}

RECURSIVE TrimStart(_)
TrimStart(text) ==
    IF text # <<>> /\ Head(text) = " " THEN TrimStart(Tail(text)) ELSE text

RECURSIVE TrimEnd(_)
TrimEnd(text) ==
    IF text # <<>> /\ text[Len(text)] = " "
    THEN TrimEnd(SubSeq(text, 1, Len(text) - 1))
    ELSE text

\* text.trim()
Trim(text) == TrimEnd(TrimStart(text))

\* the id is taken again instead of counted up
SameId(id) == id

\* ++this.messageId
NextId(id) == id + 1

\* addMessage: the list with the new message at its end
addMessage(list, id, text, type, request) ==
    Append(list, [id |-> NextId(id), text |-> text, type |-> type,
                  request |-> request])

\* sendMessage goes on whenever the input is not blank
AcceptsWhileLoading(text, loading) == Trim(text) # <<>>

\* sendMessage goes on: not (!this.newMessage.trim() || this.isLoading)
Accepts(text, loading) == ~(Trim(text) = <<>> \/ loading)

\* the places of the user's messages in the list
UserMessages ==
    {i \in 1..Len(chat_messages) : chat_messages[i].type = "user"}

\* the component after data(), before mounted() has run; the log may or may
\* not have been processed by then
ChatInit ==
    /\ DetectIdle
    /\ QueryIdle
    /\ IngestIdle
    /\ PhaseIdle
    /\ ResolveIdle
    /\ ExtractIdle
    /\ ReportIdle
    /\ chat_messages = <<>>
    /\ newMessage = <<>>
    /\ isLoading = FALSE
    /\ messageId = 0
    /\ flightDataSent = FALSE
    /\ processDone \in BOOLEAN
    /\ connectionStatus = "connecting"
    /\ mounted_pc = "created"
    /\ uploads = <<>>
    /\ chat_request = <<>>

\* the user edits the input box
TypeMessage ==
    /\ \E text \in Inputs :
          /\ Trim(text) # <<>> => Cardinality(UserMessages) < MaxSent
          /\ newMessage' = text
    /\ UNCHANGED <<chat_messages, isLoading, messageId, flightDataSent,
                   processDone, connectionStatus, mounted_pc, uploads,
                   chat_request>>
    /\ UNCHANGED <<detectVars, queryVars, ingestVars, phaseVars, resolveVars, extractVars, reportVars>>

\* sendMessage up to its await: the request to POST /chat is started
SendMessage ==
    /\ IF Accepts(newMessage, isLoading)
       THEN /\ newMessage' = <<>>
            /\ chat_messages' = addMessage(chat_messages, messageId,
                                           Trim(newMessage), "user",
                                           NextId(messageId))
            /\ messageId' = NextId(messageId)
            /\ isLoading' = TRUE
            /\ chat_request' = Append(chat_request, NextId(messageId))
       ELSE UNCHANGED <<newMessage, chat_messages, messageId, isLoading,
                        chat_request>>
    /\ UNCHANGED <<flightDataSent, processDone, connectionStatus, mounted_pc,
                   uploads>>
    /\ UNCHANGED <<detectVars, queryVars, ingestVars, phaseVars, resolveVars, extractVars, reportVars>>

\* sendMessage after its await: the request has settled, with an answer or
\* with an error (no connection, or a response that is not ok)
ChatResponse ==
    /\ \E i \in 1..Len(chat_request), ok \in BOOLEAN :
          /\ chat_messages' = addMessage(chat_messages, messageId,
                                         IF ok THEN <<"response.message">> ELSE <<"Sorry, there was an error">>,
                                         "bot", chat_request[i])
          /\ connectionStatus' = IF ok THEN connectionStatus ELSE "error"
          /\ chat_request' = SubSeq(chat_request, 1, i - 1)
                                \o SubSeq(chat_request, i + 1, Len(chat_request))
    /\ messageId' = NextId(messageId)
    /\ isLoading' = FALSE
    /\ UNCHANGED <<newMessage, flightDataSent, processDone, mounted_pc, uploads>>
    /\ UNCHANGED <<detectVars, queryVars, ingestVars, phaseVars, resolveVars, extractVars, reportVars>>

\* sendFlightDataToBackend up to its await: the uploads after the call
StartUpload(sent, done, posts) ==
    IF sent \/ ~done THEN posts ELSE Append(posts, "in_flight")

\* mounted() up to its await: the request to /health is started
Mounted ==
    /\ mounted_pc = "created"
    /\ mounted_pc' = "checking"
    /\ UNCHANGED <<chat_messages, newMessage, isLoading, messageId,
                   flightDataSent, processDone, connectionStatus, uploads,
                   chat_request>>
    /\ UNCHANGED <<detectVars, queryVars, ingestVars, phaseVars, resolveVars, extractVars, reportVars>>

\* mounted() after checkBackendConnection has returned: the welcome message,
\* and the upload if the log is processed
HealthResponse ==
    /\ mounted_pc = "checking"
    /\ \E isConnected \in BOOLEAN :
          /\ connectionStatus' = IF isConnected THEN "connected" ELSE "error"
          /\ chat_messages' = addMessage(chat_messages, messageId,
                                         IF isConnected THEN <<"Welcome: connected">>
                                         ELSE <<"Welcome: trouble connecting">>,
                                         "bot", 0)
    /\ messageId' = NextId(messageId)
    /\ uploads' = IF processDone
                  THEN StartUpload(flightDataSent, processDone, uploads)
                  ELSE uploads
    /\ mounted_pc' = "mounted"
    /\ UNCHANGED <<newMessage, isLoading, flightDataSent, processDone,
                   chat_request>>
    /\ UNCHANGED <<detectVars, queryVars, ingestVars, phaseVars, resolveVars, extractVars, reportVars>>

\* the log has been processed: the store sets processDone and the watcher
\* of state.processDone runs
ProcessDone ==
    /\ ~processDone
    /\ processDone' = TRUE
    /\ uploads' = IF processDone' /\ ~flightDataSent
                  THEN StartUpload(flightDataSent, processDone', uploads)
                  ELSE uploads
    /\ UNCHANGED <<chat_messages, newMessage, isLoading, messageId,
                   flightDataSent, connectionStatus, mounted_pc, chat_request>>
    /\ UNCHANGED <<detectVars, queryVars, ingestVars, phaseVars, resolveVars, extractVars, reportVars>>

\* sendFlightDataToBackend after its await: the request to POST /flight-data
\* has settled, with a response that is ok, or with one that is not or an
\* error
UploadResponse ==
    \E i \in 1..Len(uploads), ok \in BOOLEAN :
        /\ uploads[i] = "in_flight"
        /\ uploads' = [uploads EXCEPT ![i] = IF ok THEN "ok" ELSE "failed"]
        /\ flightDataSent' = IF ok THEN TRUE ELSE flightDataSent
        /\ connectionStatus' = IF ok THEN "connected" ELSE "error"
        /\ chat_messages' = IF ok
                            THEN addMessage(chat_messages, messageId,
                                            <<"Flight data loaded!">>, "bot", 0)
                            ELSE chat_messages
        /\ messageId' = IF ok THEN NextId(messageId) ELSE messageId
        /\ UNCHANGED <<newMessage, isLoading, processDone, mounted_pc,
                       chat_request>>
        /\ UNCHANGED <<detectVars, queryVars, ingestVars, phaseVars, resolveVars, extractVars, reportVars>>

ChatNext ==
    \/ TypeMessage
    \/ SendMessage
    \/ ChatResponse
    \/ Mounted
    \/ HealthResponse
    \/ ProcessDone
    \/ UploadResponse

SpecChat == ChatInit /\ [][ChatNext]_vars

\* every request to the backend settles, with a response or with an error
SpecChatFair == SpecChat /\ WF_vars(ChatResponse)

-----------------------------------------------------------------------------
(* Properties of the detection pass.                                       *)

OfType(type) == SelectSeq(anomalies, LAMBDA a : a.type = type)

\* the sudden-change rule has run on the series
SuddenRan == pc \in {"sudden_done", "threshold_done", "done"}

\* the threshold rule has run on the series
ThresholdRan == pc \in {"threshold_done", "done"}

\* sum over all pairs j < k of (v[j] - v[k])^2
PairwiseSquares(v) ==
    Sum([j \in 1..Len(v) |->
        Sum([k \in 1..Len(v) |->
            IF j < k THEN (v[j] - v[k]) * (v[j] - v[k]) ELSE 0])])

\* the 1-based indices i >= 2 whose step exceeds three sample standard
\* deviations; the sample variance of n values is PairwiseSquares / (n (n-1))
SuddenIndices ==
    LET v == Values(data_points)
        n == Len(v)
    IN  {i \in 2..n :
            (v[i] - v[i - 1]) * (v[i] - v[i - 1]) * n * (n - 1)
                > 9 * PairwiseSquares(v)}

OutsideBounds(param, v) ==
    \/ param = "battery_voltage" /\ (v < 100 \/ v > 150)
    \/ param = "gps_alt" /\ (v < -1000 \/ v > 10000)
    \/ param = "gps_accuracy" /\ v > 50
    \/ param = "temperature" /\ (v < -200 \/ v > 600)

\* C3: the threshold rule flags a sample exactly when its value is strictly
\* outside the parameter's table bounds: a value equal to a bound is not a
\* violation, and a parameter with only a max bound is never flagged for
\* being low.
C3_ThresholdStrictlyOutside ==
    ThresholdRan =>
        LET out == OfType("threshold_violation")
        IN  /\ \A i \in 1..Len(data_points) :
                  OutsideBounds(parameter, data_points[i].value)
                      <=> \E k \in 1..Len(out) : out[k].index = i
            /\ \A k \in 1..Len(out) :
                  out[k].value = data_points[out[k].index].value

\* a battery series holding both bounds and a value just below the minimum
C3_Witness ==
    /\ pc = "threshold_done"
    /\ parameter = "battery_voltage"
    /\ {100, 150, 99} \subseteq {data_points[i].value : i \in 1..Len(data_points)}
    /\ Len(OfType("threshold_violation")) = 1

\* the value is beyond 2 x the bound it violates
BeyondTwiceBound(param, v) ==
    \/ param = "battery_voltage" /\ (v < 0 \/ v > 300)
    \/ param = "gps_alt" /\ (v < -2000 \/ v > 20000)
    \/ param = "gps_accuracy" /\ v > 100
    \/ param = "temperature" /\ (v < -400 \/ v > 1200)

\* C4: a threshold violation is critical when the value is beyond 2 x the
\* violated bound and medium otherwise: 9.9 V is medium and -5.0 V critical,
\* and violations of the negative bounds (-100 m, -20 degrees C) get a
\* severity by the same rule.
C4_ThresholdSeverity ==
    ThresholdRan =>
        \A k \in 1..Len(anomalies) :
            anomalies[k].type = "threshold_violation" =>
                anomalies[k].severity =
                    IF BeyondTwiceBound(parameter, anomalies[k].value)
                    THEN "critical" ELSE "medium"

\* 9.9 V and -5.0 V in one battery series, flagged medium and critical
C4_Witness ==
    /\ pc = "threshold_done"
    /\ parameter = "battery_voltage"
    /\ \E j, k \in 1..Len(anomalies) :
          /\ anomalies[j].value = 99 /\ anomalies[j].severity = "medium"
          /\ anomalies[k].value = -50 /\ anomalies[k].severity = "critical"

\* a negative bound violated at both severities
C4_WitnessNegativeBound ==
    /\ pc = "threshold_done"
    /\ parameter = "gps_alt"
    /\ \E j, k \in 1..Len(anomalies) :
          /\ anomalies[j].value = -1001 /\ anomalies[j].severity = "medium"
          /\ anomalies[k].value = -2001 /\ anomalies[k].severity = "critical"

\* the variance rule was reached with a summary
VarianceReached == stats.computed /\ pc \in {"done", "raised"}

\* C5: with mean 0 the coefficient of variation is +infinity and the variance
\* rule emits a high_variance anomaly of severity medium without raising;
\* with a non-zero mean it emits one exactly when std_dev / |mean| > 0.5.
C5_VarianceRule ==
    VarianceReached =>
        LET out == OfType("high_variance")
            v == Values(data_points)
            n == Len(v)
        IN  /\ error = "none"
            /\ \A k \in 1..Len(out) : out[k].severity = "medium"
            /\ IF Sum(v) = 0
               THEN Len(out) = 1
               ELSE Len(out) =
                        IF 4 * PairwiseSquares(v) * n > Sum(v) * Sum(v) * (n - 1)
                        THEN 1 ELSE 0

\* C6: degenerate inputs never raise: the summary of an empty series has
\* count 0, std_dev 0 and trend stable, the summary of a single sample has
\* std_dev 0 and trend stable, and the pass still returns a list.
C6_DegenerateNeverRaises ==
    (Len(data_points) < 2 /\ pc # "extracted") =>
        /\ error = "none"
        /\ stats.computed
        /\ stats.count = Len(data_points)
        /\ stats.var_num = 0
        /\ stats.trend = "stable"

\* all samples of the series carry the same timestamp
SameTimestamps ==
    \A i, j \in 1..Len(data_points) :
        data_points[i].timestamp = data_points[j].timestamp

\* C7: the trend is increasing iff the least-squares slope s of value against
\* timestamp is > 0.01, decreasing iff s < -0.01, stable otherwise; a constant
\* series and a series whose timestamps are all equal are stable, and a
\* constant series has std_dev 0.
C7_TrendClassification ==
    (Len(data_points) >= 2 /\ pc # "extracted") =>
        LET t == Timestamps(data_points)
            v == Values(data_points)
            constant == \A i \in 1..Len(v) : v[i] = v[1]
        IN  /\ error # "LinAlgError"
            /\ stats.computed
            /\ IF SameTimestamps \/ constant
               THEN stats.trend = "stable"
               ELSE /\ stats.trend = "increasing"
                        <=> 10 * SlopeNum(t, v) > SlopeDen(t)
                    /\ stats.trend = "decreasing"
                        <=> 10 * SlopeNum(t, v) < -SlopeDen(t)
            /\ constant => stats.var_num = 0

-----------------------------------------------------------------------------
(* Properties of the time-range query.                                     *)

\* the samples with start <= timestamp <= end, in original order
SamplesInRange ==
    SelectSeq(query_points,
              LAMBDA p : time_range[1] <= p.timestamp /\ p.timestamp <= time_range[2])

\* C8: for a timestamp-sorted series and a range [start, end] the query
\* returns exactly the samples with start <= timestamp <= end, in original
\* order, every sample at start or at end included; with start > end the
\* result is empty.
C8_RangeInclusiveOfBothEnds ==
    query_pc = "done" => query_result = SamplesInRange

-----------------------------------------------------------------------------
(* Properties of the ingest.                                               *)

\* the flight data has been normalised
Normalized == ingest_pc \in {"normalized", "series_extracted"}

\* C9: after normalization every series is ordered by timestamp, whatever
\* the order of the input and also when the series was assembled from
\* several message sources one after the other, and samples of one timestamp
\* keep their arrival order.
C9_SeriesSortedAfterNormalization ==
    Normalized =>
        /\ IsSorted(flight_data.battery_series)
        /\ IsSorted(flight_data.attitude_series)
        /\ flight_data.battery_series
              = SortByTimestamp(battery_series, Len(battery_series))

\* the attitude samples of the log, one record per ATTITUDE message
AttitudeSamplesOfLog ==
    IF "ATTITUDE" \notin DOMAIN messages THEN <<>>
    ELSE LET att == messages.ATTITUDE
         IN  [i \in 1..Len(att.time_boot_ms) |->
                [timestamp |-> att.time_boot_ms[i], roll |-> att.roll[i],
                 pitch |-> att.pitch[i], yaw |-> att.yaw[i]]]

\* C10: normalization neither reorders nor drops a sample it can interpret:
\* the attitude list built from the timestamp-keyed attitude map has one
\* record per attitude sample of the log, in input order.
C10_OneRecordPerAttitudeSample ==
    Normalized => flight_data.attitude_series = AttitudeSamplesOfLog

-----------------------------------------------------------------------------
(* Order of the anomaly list.                                              *)

\* place of a rule in the detector's declaration order
DetectorRank(type) ==
    CASE type = "sudden_change" -> 1
      [] type = "threshold_violation" -> 2
      [] type = "high_variance" -> 3

-----------------------------------------------------------------------------
(* Battery-critical rule.                                                  *)

\* how many anomalies of the type report the voltage v at the time t
AnomaliesAt(type, t, v) ==
    Len(SelectSeq(anomalies,
            LAMBDA a : a.type = type /\ a.timestamp = t /\ a.value = v))

\* how many battery samples of the log carry the voltage v at the time t
VoltageSamplesAt(t, v) ==
    Len(SelectSeq(time_series.battery,
            LAMBDA b : b.timestamp = t /\ b.voltage = Some(v)))

\* the voltages, in tenths of a volt, that a sample or an anomaly can carry
VoltagesSeen ==
    {a.value : a \in {anomalies[k] : k \in 1..Len(anomalies)}}
        \cup {b.voltage[1] : b \in {c \in {time_series.battery[k] :
                                   k \in 1..Len(time_series.battery)} :
                                   c.voltage # undefined}}

TimesSeen ==
    {a.timestamp : a \in {anomalies[k] : k \in 1..Len(anomalies)}}
        \cup {time_series.battery[k].timestamp : k \in 1..Len(time_series.battery)}

\* C13: the battery-critical rule emits one anomaly, of severity critical,
\* for exactly the battery samples with a voltage below 10.5 V (10.5 V and a
\* sample without a voltage emit nothing), whatever the threshold rule did:
\* that rule emits one violation for exactly the samples below 10.0 V, so a
\* voltage in [10.0, 10.5) has the battery anomaly alone and one below
\* 10.0 V has both.
C13_BatteryCriticalIndependent ==
    ingest_pc = "battery_done" =>
        /\ \A k \in 1..Len(anomalies) :
              anomalies[k].type = "BATTERY_CRITICAL_LOW"
                  => anomalies[k].severity = "critical"
        /\ \A t \in TimesSeen, v \in VoltagesSeen :
              /\ AnomaliesAt("BATTERY_CRITICAL_LOW", t, v)
                    = (IF v < 105 THEN VoltageSamplesAt(t, v) ELSE 0)
              /\ AnomaliesAt("threshold_violation", t, v)
                    = (IF v < 100 \/ v > 150 THEN VoltageSamplesAt(t, v) ELSE 0)

\* a log with 10.499 V, flagged by the battery rule alone, and 9.9 V,
\* flagged by both rules
C13_Witness ==
    /\ ingest_pc = "battery_done"
    /\ \E t1, t2 \in TimesSeen :
          /\ AnomaliesAt("BATTERY_CRITICAL_LOW", t1, 104) = 1
          /\ AnomaliesAt("threshold_violation", t1, 104) = 0
          /\ AnomaliesAt("BATTERY_CRITICAL_LOW", t2, 99) = 1
          /\ AnomaliesAt("threshold_violation", t2, 99) = 1

-----------------------------------------------------------------------------
(* GPS rules.                                                              *)

\* extractGpsHealth has run on the log
GpsExtracted == ingest_pc \in {"gps_extracted", "gps_done"}

\* the GPS_RAW_INT reports of the log that carry a fix_type, by position
FixReports ==
    IF "GPS_RAW_INT" \in DOMAIN messages /\ "fix_type" \in DOMAIN messages.GPS_RAW_INT
    THEN {i \in 1..Len(messages.GPS_RAW_INT.time_boot_ms) :
             messages.GPS_RAW_INT.fix_type[i] # undefined}
    ELSE {}

FixOfReport(i) == messages.GPS_RAW_INT.fix_type[i][1]

\* the reports whose fix type is the first of the log or differs from the
\* fix type of the report with a fix type before it
FixTransitions ==
    {i \in FixReports :
        \A j \in FixReports :
            (j < i /\ \A k \in FixReports : k < i => k <= j)
                => FixOfReport(j) # FixOfReport(i)}

\* C14: the GPS-signal-loss rule emits one anomaly, of severity high, for
\* exactly the status_changes entries whose status is NO_GPS or NO_FIX (fix
\* type 0 or 1), in their order; as status_changes holds transitions only,
\* there is one anomaly per run of reports with the same lost fix type.
C14_SignalLossPerLostTransition ==
    ingest_pc = "gps_done" =>
        LET out == OfType("GPS_SIGNAL_LOSS")
            changes == gpsHealth.status_changes
            lost == {i \in 1..Len(changes) : changes[i].fix_type \in {0, 1}}
        IN  /\ Len(out) = Cardinality(lost)
            /\ \A k \in 1..Len(out) :
                  /\ out[k].index \in lost
                  /\ out[k].severity = "high"
                  /\ out[k].timestamp = changes[out[k].index].timestamp
            /\ \A k \in 1..(Len(out) - 1) : out[k].index < out[k + 1].index
            /\ Len(out) = Cardinality({i \in FixTransitions : FixOfReport(i) \in {0, 1}})

\* three reports NO_FIX, NO_FIX, 3D_FIX: one anomaly for the two lost reports
C14_Witness ==
    /\ ingest_pc = "gps_done"
    /\ "GPS_RAW_INT" \in DOMAIN messages
    /\ "fix_type" \in DOMAIN messages.GPS_RAW_INT
    /\ messages.GPS_RAW_INT.fix_type = <<Some(1), Some(1), Some(3)>>
    /\ Len(OfType("GPS_SIGNAL_LOSS")) = 1

\* C15: status_changes holds the transitions of the fix type and nothing
\* else: one entry for the first report with a fix_type and one for every
\* later report whose fix type differs from the one before, in report order,
\* each with the timestamp and fix type of its report; so no two consecutive
\* entries have the same fix_type.
C15_StatusChangesAreTransitions ==
    GpsExtracted =>
        LET changes == gpsHealth.status_changes
        IN  /\ Len(changes) = Cardinality(FixTransitions)
            /\ \A k \in 1..Len(changes) :
                  \E i \in FixTransitions :
                      /\ changes[k].timestamp = messages.GPS_RAW_INT.time_boot_ms[i]
                      /\ changes[k].fix_type = FixOfReport(i)
            /\ \A k \in 1..(Len(changes) - 1) :
                  /\ changes[k].timestamp < changes[k + 1].timestamp
                  /\ changes[k].fix_type # changes[k + 1].fix_type
            /\ FixReports # {} =>
                  LET first == CHOOSE i \in FixReports : \A j \in FixReports : i <= j
                  IN  /\ changes[1].timestamp = messages.GPS_RAW_INT.time_boot_ms[first]
                      /\ changes[1].fix_type = FixOfReport(first)

\* a report without a fix type, then 3D_FIX twice, kept as one entry with the
\* time of the second report
C15_Witness ==
    /\ ingest_pc = "gps_extracted"
    /\ "GPS_RAW_INT" \in DOMAIN messages
    /\ "fix_type" \in DOMAIN messages.GPS_RAW_INT
    /\ messages.GPS_RAW_INT.fix_type = <<undefined, Some(3), Some(3)>>
    /\ Len(gpsHealth.status_changes) = 1
    /\ gpsHealth.status_changes[1].timestamp = 2

\* C16: the satellite-drop rule emits one anomaly, of severity high, for
\* exactly the pairs of consecutive satellite counts whose decrease is
\* greater than 3, in their order; for the counts 10, 9, 5 that is one
\* anomaly, for the step from 9 to 5.
C16_SatelliteDropAboveThree ==
    ingest_pc = "gps_done" =>
        LET out == OfType("SATELLITE_COUNT_DROP")
            counts == gpsHealth.satellite_counts
            drops == {i \in 2..Len(counts) : counts[i - 1] - counts[i] > 3}
        IN  /\ Len(out) = Cardinality(drops)
            /\ \A k \in 1..Len(out) :
                  /\ out[k].index \in drops
                  /\ out[k].severity = "high"
                  /\ out[k].prev_count = counts[out[k].index - 1]
                  /\ out[k].count = counts[out[k].index]
            /\ \A k \in 1..(Len(out) - 1) : out[k].index < out[k + 1].index
            /\ counts = <<10, 9, 5>> =>
                  /\ Len(out) = 1
                  /\ out[1].prev_count = 9 /\ out[1].count = 5

\* the counts 10, 9, 5 with their one anomaly
C16_Witness ==
    /\ ingest_pc = "gps_done"
    /\ gpsHealth.satellite_counts = <<10, 9, 5>>
    /\ Len(OfType("SATELLITE_COUNT_DROP")) = 1

-----------------------------------------------------------------------------
(* Flight phases.                                                          *)

PhasesNamed(name) == SelectSeq(flight_phases, LAMBDA f : f.phase = name)

\* the samples of the altitude series in the named band
BandSamples(name) ==
    LET a == Values(alt_data)
        lo == SeqMin(a)
        hi == SeqMax(a)
    IN  {i \in 1..Len(alt_data) :
            \/ name = "takeoff" /\ 10 * a[i] > 10 * lo + (hi - lo)
            \/ name = "cruise" /\ 10 * lo + 3 * (hi - lo) <= 10 * a[i]
                               /\ 10 * a[i] <= 10 * hi - (hi - lo)}

C19_ScenarioPhasesOrdered ==
    (phase_pc = "done" /\ Values(alt_data) = ClimbHoldDescend) =>
        /\ Len(flight_phases) = 3
        /\ flight_phases[1].phase = "takeoff"
        /\ flight_phases[2].phase = "cruise"
        /\ flight_phases[3].phase = "landing"
        /\ \A k \in 1..2 :
              /\ flight_phases[k].start_time <= flight_phases[k + 1].start_time
              /\ flight_phases[k].end_time <= flight_phases[k + 1].end_time

-----------------------------------------------------------------------------
(* Decimation.                                                             *)

\* the slice is decimated by a factor above 1 and has at least 2 samples
Decimated ==
    /\ query_pc = "aggregated"
    /\ aggregation[1] = "decimate"
    /\ aggregation[2] > 1
    /\ Len(query_result) >= 2

\* C20: decimate(n) with n > 1 on a slice of at least 2 samples returns the
\* samples at the positions 0, n, 2n, ... of the slice and its last sample,
\* in the order of the slice and each once; the first and the last sample
\* are always among them.  (The value of a sample is its position in the
\* series, so equal values mean the same sample.)
C20_DecimateKeepsEveryNthAndEnds ==
    Decimated =>
        LET n == aggregation[2]
            len == Len(query_result)
            first == query_result[1].value
        IN  /\ aggregated[1] = query_result[1]
            /\ aggregated[Len(aggregated)] = query_result[len]
            /\ \A k \in 1..(Len(aggregated) - 1) :
                  aggregated[k].value < aggregated[k + 1].value
            /\ {aggregated[k] : k \in 1..Len(aggregated)}
                  = {query_result[q] : q \in {r \in 1..len :
                                                (r - 1) % n = 0 \/ r = len}}

\* 5 samples by 2: positions 0, 2, 4, the last already being an n-th one
C20_Witness ==
    /\ Decimated
    /\ aggregation[2] = 2
    /\ Len(query_result) = 5
    /\ Len(aggregated) = 3

-----------------------------------------------------------------------------
(* Parameter resolution.                                                   *)

\* the alias of the requested name is a series whose samples carry the field
AliasGives ==
    /\ requested = RSSI
    /\ rc_inputs \in DOMAIN known_series
    /\ \E k \in 1..Len(known_series[rc_inputs]) :
          known_series[rc_inputs][k].value # undefined

\* the known names that are the requested name up to case
SameUpToCase ==
    {n \in DOMAIN known_series : Len(n) = Len(requested)
        /\ \A i \in 1..Len(n) : ToLower(n[i]) = ToLower(requested[i])}

\* the known names in which the requested name occurs
Containing ==
    {n \in DOMAIN known_series :
        \E i \in 1..Len(n) :
            /\ i + Len(requested) - 1 <= Len(n)
            /\ \A j \in 1..Len(requested) : n[i + j - 1] = requested[j]}

\* C11: the sources are tried in the order exact name, alias, name up to
\* case, substring, and the first that gives points is used: an exact match
\* whatever else matches, else the alias, else the match up to case, else
\* the lexicographically first name containing the requested one, else
\* nothing; the points are in ascending timestamp order.
C11_FirstSourceInPriorityOrderWins ==
    resolve_pc = "done" =>
        /\ IsSorted(resolved.points)
        /\ IF requested \in DOMAIN known_series
           THEN resolved.source = requested
           ELSE IF AliasGives
           THEN resolved.source = rc_inputs
           ELSE IF SameUpToCase # {}
           THEN resolved.source \in SameUpToCase
           ELSE IF Containing # {}
           THEN /\ resolved.source \in Containing
                /\ \A n \in Containing \ {resolved.source} :
                      LexLess(resolved.source, n)
           ELSE resolved.points = <<>>
        /\ resolved.points # <<>> =>
              /\ resolved.source \in DOMAIN known_series
              /\ Len(resolved.points) <= Len(known_series[resolved.source])
              /\ \A k \in 1..Len(resolved.points) :
                    \E q \in 1..Len(known_series[resolved.source]) :
                        resolved.points[k] = known_series[resolved.source][q]

\* RSSI is asked for, the data has the series RSSI, the alias rc_inputs
\* with signal strengths, rssi and two names containing RSSI, out of
\* timestamp order: the series RSSI is used, by ascending timestamp
C11_Witness ==
    /\ resolve_pc = "done"
    /\ requested = RSSI
    /\ DOMAIN known_series = {RSSI, rssi, RC_RSSI, RSSI_RAW, rc_inputs}
    /\ AliasGives
    /\ Timestamps(known_series[RSSI]) = <<2, 1>>
    /\ resolved.source = RSSI
    /\ Timestamps(resolved.points) = <<1, 2>>

\* neither RSSI nor a usable alias nor rssi: of the two names containing
\* RSSI the first in lexicographic order, RC_RSSI, is used
C11_WitnessSubstring ==
    /\ resolve_pc = "done"
    /\ requested = RSSI
    /\ DOMAIN known_series = {RC_RSSI, RSSI_RAW, rc_inputs, my_rssi}
    /\ ~AliasGives
    /\ resolved.source = RC_RSSI

-----------------------------------------------------------------------------
(* Properties of the parameter extraction.                                 *)

\* the PARAM_VALUE arrays of the log, empty when the log has none
ParamMessages ==
    IF "PARAM_VALUE" \in DOMAIN messages THEN messages.PARAM_VALUE
    ELSE [time_boot_ms |-> <<>>, param_id |-> <<>>, param_value |-> <<>>]

\* the last PARAM_VALUE message whose sanitized name is the given one
LastMessageNamed(name) ==
    CHOOSE i \in 1..Len(ParamMessages.time_boot_ms) :
        /\ Sanitize(ParamMessages.param_id[i]) = name
        /\ \A j \in (i + 1)..Len(ParamMessages.time_boot_ms) :
              Sanitize(ParamMessages.param_id[j]) # name

\* the last triple of the given name
LastTripleNamed(name) ==
    CHOOSE i \in 1..Len(params) :
        /\ params[i][2] = name
        /\ \A j \in (i + 1)..Len(params) : params[j][2] # name

\* C21: the flattened mapping has exactly the names of the triples, each with
\* the value of the last triple of that name in array order; and for the
\* triples of extractParams each sanitized name of the log maps to the value
\* of the last PARAM_VALUE message that carries the name.
C21_ParamsCollapseToLastValue ==
    extract_pc = "params_normalized" =>
        /\ DOMAIN params_dict = {params[i][2] : i \in 1..Len(params)}
        /\ \A name \in DOMAIN params_dict :
              params_dict[name] = params[LastTripleNamed(name)][3]
        /\ DOMAIN params_dict =
              {Sanitize(ParamMessages.param_id[i]) :
                  i \in 1..Len(ParamMessages.time_boot_ms)}
        /\ \A name \in DOMAIN params_dict :
              params_dict[name] =
                  ParamMessages.param_value[LastMessageNamed(name)]

\* C21 witness: a padded and a plain id of one name with different values,
\* and the name is mapped to the value of the later message
C21_Witness ==
    /\ extract_pc = "params_normalized"
    /\ \E i, j \in 1..Len(ParamMessages.time_boot_ms) :
          /\ i < j
          /\ ParamMessages.param_id[i] # ParamMessages.param_id[j]
          /\ Sanitize(ParamMessages.param_id[i]) = Sanitize(ParamMessages.param_id[j])
          /\ ParamMessages.param_value[i] # ParamMessages.param_value[j]
          /\ j = LastMessageNamed(Sanitize(ParamMessages.param_id[j]))
          /\ params_dict[Sanitize(ParamMessages.param_id[j])] =
                ParamMessages.param_value[j]

\* the indices of the triples of the given name, in array order
TriplesNamed(name) == SelectSeq([i \in 1..Len(params) |-> i],
                                LAMBDA i : params[i][2] = name)

\* C30: no two successive triples of one name carry the same value
C30_NoRepeatedValuePerName ==
    extract_pc = "params_extracted" =>
        \A name \in {params[i][2] : i \in 1..Len(params)} :
            \A k \in 1..(Len(TriplesNamed(name)) - 1) :
                params[TriplesNamed(name)[k]][3] #
                    params[TriplesNamed(name)[k + 1]][3]

-----------------------------------------------------------------------------
(* Properties of the flight-mode extraction.                               *)

\* the HEARTBEAT arrays of the log, empty when the log has none
Heartbeats ==
    IF "HEARTBEAT" \in DOMAIN messages THEN messages.HEARTBEAT
    ELSE [time_boot_ms |-> <<>>, type |-> <<>>, asText |-> <<>>]

\* C22: no operation mutates its input: the messages object is the same
\* after every call as before it
C22_InputsUnchanged == [][messages' = messages]_vars

\* C27: every entry of the modes list is the mode of a HEARTBEAT of a valid
\* vehicle type (never a ground station), with that heartbeat's timestamp
\* and a defined mode name
C27_ModesAreVehicleHeartbeats ==
    extract_pc = "modes_extracted" =>
        \A k \in 1..Len(flightModes) :
            \E i \in 1..Len(Heartbeats.time_boot_ms) :
                /\ Heartbeats.type[i] \in validGCSs
                /\ Heartbeats.asText[i] \notin {undefined, null}
                /\ flightModes[k] =
                      <<Some(Heartbeats.time_boot_ms[i]), Heartbeats.asText[i]>>

-----------------------------------------------------------------------------
(* Properties of the trajectory extraction.                                *)

\* the last trajectory point of the record with the given timestamp
LastPointAt(record, time) ==
    CHOOSE i \in 1..Len(record.trajectory) :
        /\ record.trajectory[i][4] = time
        /\ \A j \in (i + 1)..Len(record.trajectory) :
              record.trajectory[j][4] # time

\* C23: timeTrajectory is a secondary index of trajectory: its keys are
\* exactly the timestamps of the trajectory points and the entry under a
\* timestamp equals the last trajectory point with that timestamp
C23_TimeTrajectoryIndexesTrajectory ==
    \A source \in DOMAIN trajectories :
        LET record == trajectories[source]
        IN  /\ DOMAIN record.timeTrajectory =
                  {record.trajectory[i][4] : i \in 1..Len(record.trajectory)}
            /\ \A time \in DOMAIN record.timeTrajectory :
                  record.timeTrajectory[time] =
                      record.trajectory[LastPointAt(record, time)]

\* the raw altitude, in millimetres, of the first message of the source
\* that was emitted as a trajectory point
FirstEmittedAltitude(source) ==
    LET points == PointsOf(source, messages[source])
        first == CHOOSE i \in 1..Len(points) :
                    points[i].emitted /\ \A j \in 1..(i - 1) : ~points[j].emitted
    IN  points[first].alt

\* C28: for each source the first trajectory point has altitude 0 and
\* startAltitude is the raw altitude of the first emitted point
C28_AltitudesRelativeToFirstPoint ==
    \A source \in DOMAIN trajectories :
        /\ trajectories[source].trajectory[1][3] = 0
        /\ trajectories[source].startAltitude = Some(FirstEmittedAltitude(source))

-----------------------------------------------------------------------------
(* Properties of the completeness report.                                  *)

\* C29: data_coverage is available_parameters / total_parameters and lies in
\* [0, 1], that is, available_parameters never exceeds total_parameters; and
\* the report is the one that the record always gives
C29_CoverageIsAFractionOfTheWhole ==
    report_pc = "reported" =>
        /\ completeness.data_coverage =
              <<completeness.available_parameters, completeness.total_parameters>>
        /\ 0 <= completeness.available_parameters
        /\ completeness.available_parameters <= completeness.total_parameters
        /\ completeness = calculate_data_completeness(flight_record)

-----------------------------------------------------------------------------
(* Properties of the chat window.                                          *)

\* the uploads that were started and have not failed
UploadsNotFailed == {i \in 1..Len(uploads) : uploads[i] # "failed"}

\* C24: flight data is uploaded at most once: no second POST /flight-data is
\* started once one has been started and has not failed
C24_AtMostOneUpload == Cardinality(UploadsNotFailed) <= 1

\* the bot messages that the sendMessage call of the user message added
RepliesTo(id) ==
    {i \in 1..Len(chat_messages) :
        chat_messages[i].type = "bot" /\ chat_messages[i].request = id}

\* the user messages that have no reply yet
Unanswered ==
    {i \in 1..Len(chat_messages) :
        chat_messages[i].type = "user" /\ RepliesTo(chat_messages[i].id) = {}}

\* C25: at most one chat request is in flight, and it is in flight exactly
\* while isLoading is true; no second user message is in the list before
\* the reply to the previous one is
C25_OneChatRequestInFlight ==
    /\ Len(chat_request) <= 1
    /\ isLoading <=> Len(chat_request) = 1
    /\ Cardinality(Unanswered) <= 1
    /\ \A i \in Unanswered : chat_request = <<chat_messages[i].id>>

\* C25 witness: the user has typed the next message while the request of
\* the message before is in flight
C25_Witness ==
    /\ isLoading
    /\ Len(chat_request) = 1
    /\ Trim(newMessage) # <<>>
    /\ Cardinality(Unanswered) = 1

\* the ids are unique and strictly increasing in list order, and every reply
\* stands behind its user message, which has no other reply
RepliesInOrder ==
    /\ \A i, j \in 1..Len(chat_messages) :
          i < j => chat_messages[i].id < chat_messages[j].id
    /\ \A i \in 1..Len(chat_messages) :
          chat_messages[i].type = "user" =>
              /\ chat_messages[i].request = chat_messages[i].id
              /\ Cardinality(RepliesTo(chat_messages[i].id)) <= 1
              /\ \A j \in RepliesTo(chat_messages[i].id) :
                    /\ i < j
                    /\ chat_messages[j].text \in {<<"response.message">>, <<"Sorry, there was an error">>}

\* the user message with the given id is in the list
Accepted(id) ==
    \E i \in 1..Len(chat_messages) :
        chat_messages[i].type = "user" /\ chat_messages[i].id = id

\* the step in which the reply to a user message is added
ReplyAdded ==
    /\ Len(chat_messages') = Len(chat_messages) + 1
    /\ chat_messages'[Len(chat_messages')].type = "bot"
    /\ chat_messages'[Len(chat_messages')].request # 0

\* the largest message id that the model reaches
MaxMessageId == 2 * MaxSent + 3

\* C26: every accepted user message stands in the list before its reply and
\* is eventually followed by exactly one bot message produced for it, the
\* answer or the fixed error text, and isLoading is false when the reply has
\* been added; the message ids are unique and strictly increasing in list
\* order
C26_EveryMessageGetsOneReply ==
    /\ []RepliesInOrder
    /\ [][ReplyAdded => ~isLoading']_vars
    /\ \A id \in 1..MaxMessageId :
          Accepted(id) ~> (Cardinality(RepliesTo(id)) = 1 /\ ~isLoading)

\* C26 witness: two user messages, the first answered and the second
\* replied to with the error text
C26_Witness ==
    /\ ~isLoading
    /\ Cardinality(UserMessages) = 2
    /\ Unanswered = {}
    /\ \E i, j \in 1..Len(chat_messages) :
          /\ chat_messages[i].text = <<"response.message">>
          /\ chat_messages[i].request # 0
          /\ chat_messages[j].text = <<"Sorry, there was an error">>

====
